---- MODULE Spec2Model ----
(***************************************************************************)
(* RUBRIX (src/app.py): the evaluation request/response contract.          *)
(*                                                                         *)
(* A text is a sequence of characters.  A Python dict is a function from   *)
(* key names to tagged values; a missing key is a key outside DOMAIN.      *)
(***************************************************************************)
EXTENDS Integers, Sequences, FiniteSets, TLC

VARIABLES
    pc,               \* position of the running handler / function
    entry,            \* the request as received (entry path and its parts)
    assignment_text,  \* local of upload_files / argument of analyze_with_openrouter
    rubric_text,      \* local of upload_files / argument of analyze_with_openrouter
    prompt,           \* local of analyze_with_openrouter
    reply,            \* what the provider did with the one request
    analysis_result,  \* the verdict text returned by analyze_with_openrouter
    analysis_data,    \* the parsed verdict
    uploads,          \* the files present in app.config['UPLOAD_FOLDER']
    requests_sent,    \* number of requests.post calls made for this request
    response,         \* what the handler returned to the caller
    story,            \* the story list of generate_pdf_report
    report_data,      \* local of download_pdf
    assign_ids        \* the assign_id local of each of the concurrent requests

vars == <<pc, entry, assignment_text, rubric_text, prompt, reply,
          analysis_result, analysis_data, uploads, requests_sent, response,
          story, report_data, assign_ids>>

Min(a, b) == IF a < b THEN a ELSE b
Max(a, b) == IF a > b THEN a ELSE b

(***************************************************************************)
(* Python string primitives used by the code.                              *)
(***************************************************************************)

\* str.strip() with no argument removes these from both ends.
Whitespace == {" ", "\n"}

\* s[start:stop] with Python's clamping of out-of-range and negative indices.
PySlice(s, start, stop) ==
    LET n  == Len(s)
        lo == IF start < 0 THEN Max(start + n, 0) ELSE Min(start, n)
        hi == IF stop < 0 THEN Max(stop + n, 0) ELSE Min(stop, n)
    IN  SubSeq(s, lo + 1, hi)

RECURSIVE lstrip(_)
lstrip(s) ==
    IF s # <<>> /\ Head(s) \in Whitespace THEN lstrip(Tail(s)) ELSE s

RECURSIVE rstrip(_)
rstrip(s) ==
    IF s # <<>> /\ s[Len(s)] \in Whitespace
    THEN rstrip(SubSeq(s, 1, Len(s) - 1))
    ELSE s

strip(s) == rstrip(lstrip(s))

startswith(s, prefix) ==
    /\ Len(s) >= Len(prefix)
    /\ SubSeq(s, 1, Len(prefix)) = prefix

\* The backtick character (a TLA+ string cannot hold one).
BT == "BACKTICK"

\* The literals "```json" and "```".
FenceJson == <<BT, BT, BT, "j", "s", "o", "n">>
Fence     == <<BT, BT, BT>>

\* Mutant of clean_response: the labelled fence is cut like the unlabelled one.
clean_responseNoLabel(content) ==
    LET ai_response == strip(content)
    IN  IF startswith(ai_response, Fence)
        THEN strip(PySlice(ai_response, 3, -3))
        ELSE ai_response

\* "Clean the response" in analyze_with_openrouter.
clean_response(content) ==
    LET ai_response == strip(content)
    IN  IF startswith(ai_response, FenceJson)
        THEN strip(PySlice(ai_response, 7, -3))
        ELSE IF startswith(ai_response, Fence)
             THEN strip(PySlice(ai_response, 3, -3))
             ELSE ai_response

(***************************************************************************)
(* Python values and the JSON codec.  A decoded value carries its Python   *)
(* type; the members of a dict are the fields of a record.                 *)
(***************************************************************************)

PyDict(d) == [type |-> "dict", value |-> d]
PyList(l) == [type |-> "list", value |-> l]
PyInt(n)  == [type |-> "int", value |-> n]

\* d.get(key, default)
Get(d, key, default) == IF key \in DOMAIN d THEN d[key] ELSE default

\* The text 'Needs Major Revision'.
NeedsMajorRevisionText ==
    <<"N", "e", "e", "d", "s", " ", "M", "a", "j", "o", "r", " ", "R", "e", "v", "i", "s", "i", "o", "n">>

\* The dict literal passed to json.dumps in the except branch of
\* analyze_with_openrouter.
FallbackVerdict ==
    [
        overall_score |-> 78,
        overall_grade |-> "C+",
        criteria_breakdown |-> <<
            [
                criterion |-> "Content Quality",
                score_percentage |-> 72,
                weight |-> 35,
                strengths |-> <<
                    "Clear thesis statement in introduction",
                    "Relevant examples provided"
                >>,
                deficiencies |-> <<
                    "Lacks depth in analysis - only surface level coverage",
                    "Missing citations for key claims"
                >>,
                recommendations |-> <<
                    "Add at least 3 scholarly references",
                    "Deepen analysis with counterarguments"
                >>,
                needs_improvement |-> TRUE
            ],
            [
                criterion |-> "Organization",
                score_percentage |-> 85,
                weight |-> 25,
                strengths |-> <<
                    "Logical paragraph structure",
                    "Clear transitions between sections"
                >>,
                deficiencies |-> <<
                    "Conclusion is abrupt and doesn't synthesize main points",
                    "Introduction could better preview structure"
                >>,
                recommendations |-> <<
                    "Expand conclusion to summarize key findings",
                    "Add roadmap sentence in introduction"
                >>,
                needs_improvement |-> FALSE
            ],
            [
                criterion |-> "Critical Thinking",
                score_percentage |-> 65,
                weight |-> 40,
                strengths |-> <<
                    "Identifies main issues in the topic"
                >>,
                deficiencies |-> <<
                    "Fails to analyze underlying assumptions",
                    "No synthesis of different perspectives",
                    "Superficial evaluation of evidence"
                >>,
                recommendations |-> <<
                    "Question the assumptions behind each argument",
                    "Compare and contrast at least 3 different viewpoints",
                    "Evaluate the quality of evidence used"
                >>,
                needs_improvement |-> TRUE
            ]
        >>,
        critical_deficiencies |-> <<
            [
                issue |-> "Lack of critical analysis depth",
                evidence |-> "\"The solution is effective because it helps people.\" (Paragraph 3) - This is descriptive, not analytical",
                priority |-> "high",
                remediation |-> "Replace descriptive statements with analytical questions: Why is it effective? For whom? Under what conditions? Compared to what alternatives?"
            ],
            [
                issue |-> "Missing academic citations",
                evidence |-> "No references provided for claims about statistics or established theories",
                priority |-> "high",
                remediation |-> "Add minimum 5 scholarly sources using proper APA/MLA format"
            ]
        >>,
        strengths_to_build |-> <<
            [
                strength |-> "Clear writing style",
                evidence |-> "Sentence structure is varied and readable throughout (e.g., Paragraph 2 uses effective complex sentences)",
                reinforcement |-> "Maintain this clarity while adding analytical depth"
            ],
            [
                strength |-> "Logical organization",
                evidence |-> "Each paragraph has clear topic sentences and flows naturally to the next",
                reinforcement |-> "Apply same organizational rigor to argument development"
            ]
        >>,
        structural_analysis |-> [
            organization |-> "Good basic structure but lacks sophistication in argument development",
            argument_development |-> "Linear presentation without enough critical engagement or synthesis",
            technical_compliance |-> "Meets basic formatting but lacks citations and proper academic conventions"
        ],
        revision_recommendations |-> [
            high_priority |-> <<
                "Add scholarly citations",
                "Deepen critical analysis"
            >>,
            content_improvements |-> <<
                "Include counterarguments",
                "Add case studies/examples"
            >>,
            structural_changes |-> <<
                "Expand conclusion",
                "Add literature review section"
            >>,
            technical_fixes |-> <<
                "Add reference list",
                "Fix formatting inconsistencies"
            >>
        ],
        grade_justification |-> "Score of 78 reflects adequate content presentation but significant deficiencies in critical analysis and academic rigor. While well-organized, the submission lacks the analytical depth and scholarly engagement required for higher grades.",
        readiness_assessment |-> [
            status |-> NeedsMajorRevisionText,
            estimated_revision_hours |-> 6,
            key_barriers |-> <<
                "Insufficient critical engagement",
                "Lack of scholarly references",
                "Superficial analysis"
            >>
        ],
        summary |-> "Adequately organized submission that meets basic requirements but requires substantial improvement in analytical depth, scholarly engagement, and critical thinking to achieve higher standards.",
        note |-> "Using simulated analysis (OpenRouter unavailable)"
    ]

\* The JSON object the prompt shows the model as the required structure.
ExampleVerdict ==
    [
        overall_score |-> 85,
        overall_grade |-> "B",
        criteria_breakdown |-> <<
            [
                criterion |-> "Criterion Name",
                score_percentage |-> 80,
                weight |-> 25,
                strengths |-> <<
                    "Specific strength with evidence"
                >>,
                deficiencies |-> <<
                    "Specific deficiency with exact quote"
                >>,
                recommendations |-> <<
                    "Concrete action required"
                >>,
                needs_improvement |-> TRUE
            ]
        >>,
        critical_deficiencies |-> <<
            [
                issue |-> "Specific critical issue",
                evidence |-> "Exact quote/location",
                priority |-> "high/medium/low",
                remediation |-> "Step-by-step fix"
            ]
        >>,
        strengths_to_build |-> <<
            [
                strength |-> "Specific strength",
                evidence |-> "Exact quote/location",
                reinforcement |-> "How to build on this"
            ]
        >>,
        structural_analysis |-> [
            organization |-> "Detailed assessment",
            argument_development |-> "Specific evaluation",
            technical_compliance |-> "Checklist results"
        ],
        revision_recommendations |-> [
            high_priority |-> <<
                "Exactly what to fix first"
            >>,
            content_improvements |-> <<
                "Specific content changes"
            >>,
            structural_changes |-> <<
                "Required reorganization"
            >>,
            technical_fixes |-> <<
                "Exact formatting fixes"
            >>
        ],
        grade_justification |-> "Concise paragraph explaining score",
        readiness_assessment |-> [
            status |-> NeedsMajorRevisionText,
            estimated_revision_hours |-> 5,
            key_barriers |-> <<
                "Fundamental issue 1",
                "Fundamental issue 2"
            >>
        ],
        summary |-> "Overall summary with actionable insights"
    ]

\* JSON documents.  The braces, brackets and the digit are characters; "F"
\* and "E" abbreviate the serialised members of FallbackVerdict and of
\* ExampleVerdict, and "D" a run of opening brackets deeper than the
\* interpreter's recursion limit.
FallbackText == <<"{", "F", "}">>
ExampleText  == <<"{", "E", "}">>
DeepText     == <<"[", "D">>

\* json.dumps, on the values the code serialises.
json_dumps(v) ==
    CASE v = FallbackVerdict -> FallbackText
      [] v = ExampleVerdict  -> ExampleText

\* json.loads: the decoded value, or the exception raised.  Whitespace
\* around the document is accepted.
json_loads(text) ==
    LET doc == strip(text)
    IN  CASE doc = FallbackText     -> [ok |-> TRUE, value |-> PyDict(FallbackVerdict)]
          [] doc = ExampleText      -> [ok |-> TRUE, value |-> PyDict(ExampleVerdict)]
          [] doc = <<"{", "}">>     -> [ok |-> TRUE, value |-> PyDict(<<>>)]
          [] doc = <<"[", "]">>     -> [ok |-> TRUE, value |-> PyList(<<>>)]
          [] doc = <<"1">>          -> [ok |-> TRUE, value |-> PyInt(1)]
          [] doc = DeepText         -> [ok |-> FALSE, raised |-> "RecursionError"]
          [] OTHER                  -> [ok |-> FALSE, raised |-> "JSONDecodeError"]

(***************************************************************************)
(* analyze_with_openrouter: the prompt.                                    *)
(***************************************************************************)

\* The character budgets of the two slices in the prompt's f-string.
RubricBudget     == 4000
AssignmentBudget == 6000

\* Mutant of build_prompt: the two budgets are exchanged.
build_promptSwapped(assignment, rubric) ==
    << "PREAMBLE",
       PySlice(rubric, 0, AssignmentBudget),
       "ASSIGNMENT HEADER",
       PySlice(assignment, 0, RubricBudget),
       "INSTRUCTIONS" >>

\* The f-string: fixed text, rubric_text[:4000], fixed text,
\* assignment_text[:6000], fixed text.
build_prompt(assignment, rubric) ==
    << "PREAMBLE",
       PySlice(rubric, 0, RubricBudget),
       "ASSIGNMENT HEADER",
       PySlice(assignment, 0, AssignmentBudget),
       "INSTRUCTIONS" >>

(***************************************************************************)
(* The requests and replies the model draws from.                          *)
(***************************************************************************)

\* Longest payload of a provider reply in the fence-stripping check.
MaxLen == 4
\* How far around the budgets the lengths of the prompt inputs range.
MaxOver == 1

RECURSIVE SeqsUpTo(_, _)
SeqsUpTo(S, n) ==
    IF n = 0 THEN {<<>>}
    ELSE LET shorter == SeqsUpTo(S, n - 1)
         IN  shorter \cup {Append(t, c) : t \in {u \in shorter : Len(u) = n - 1}, c \in S}

\* The three forms a reply takes around a payload X:
\* X, ```json\nX\n``` and ```\nX\n```.
Forms == {"none", "json", "plain"}

Wrap(form, X) ==
    CASE form = "none"  -> X
      [] form = "json"  -> FenceJson \o <<"\n">> \o X \o <<"\n">> \o Fence
      [] form = "plain" -> Fence \o <<"\n">> \o X \o <<"\n">> \o Fence

OkReply(form, X) ==
    [status |-> "ok", form |-> form, payload |-> X, content |-> Wrap(form, X)]

\* The ways the one provider call ends in the except branch: requests.post
\* raises, raise_for_status raises, response.json() raises, the content
\* path is missing, the content is not a str.
FailureKinds == {"transport", "timeout", "http_status",
                 "body_not_json", "no_content", "content_not_str"}

FailedReply(kind) == [status |-> "failed", kind |-> kind]

\* Payloads of the replies in the request model.
Payloads == { <<"x">>, <<"1">>, <<"[", "]">>, <<"{", "}">>,
              ExampleText, DeepText, <<" ", "{", "}", "\n">> }

Replies ==
    {OkReply(f, X) : f \in Forms, X \in Payloads}
        \cup {FailedReply(k) : k \in FailureKinds}

\* Payloads of the fence-stripping check: every text up to MaxLen.
CleanAlphabet == {BT, "j", "s", "o", "n", "\n", "x"}
CleanReplies ==
    {OkReply(f, X) : f \in Forms, X \in SeqsUpTo(CleanAlphabet, MaxLen)}

\* Inputs of the prompt check: texts of every length around the budgets.
PromptLengths ==
    (0 .. MaxOver)
        \cup ((RubricBudget - MaxOver) .. (RubricBudget + MaxOver))
        \cup ((AssignmentBudget - MaxOver) .. (AssignmentBudget + MaxOver))

PromptChars == <<"a", "b", "c">>
PatternText(n, p) == [i \in 1 .. n |-> PromptChars[((i * p) % 3) + 1]]
PromptTexts == {PatternText(n, p) : n \in PromptLengths, p \in {1, 2}}

\* Texts of the request model.
EmptyText == <<>>
Texts == {EmptyText, <<"a">>}

\* request.get_json() of an inline request: an object holding any subset of
\* the two text keys, or a JSON value that is not an object.
JsonBodies ==
    {PyDict(d) : d \in UNION {[K -> Texts] : K \in SUBSET {"assignment_text", "rubric_text"}}}
        \cup {PyList(<<>>)}

\* An uploaded file part: filename and the bytes it holds.
FileParts == [filename : {"", "a.txt"}, content : Texts]

Entries ==
    {[kind |-> "json", data |-> b] : b \in JsonBodies}
        \cup {[kind |-> "files", assignment |-> a, rubric |-> r] :
                  a \in FileParts, r \in FileParts}
        \cup {[kind |-> "other"]}

\* A variable that holds no value yet: a record for the variables holding
\* records, a one-element tuple that is no text for those holding texts.
None   == [type |-> "None"]
NoText == <<"UNSET">>

(***************************************************************************)
(* upload_files, the handler of POST /analyze, one action per step.        *)
(***************************************************************************)

\* str(uuid.uuid4())[:8] and the two paths built from it.
assign_id   == "1a2b3c4d"
assign_path == <<"uploads", assign_id, "_assignment.txt">>
rubric_path == <<"uploads", assign_id, "_rubric.txt">>

\* What read_file_content returns when open() or read() raises.
ReadErrorText == <<"E", "r", "r", "o", "r">>

\* The length of the raw text kept in the degraded verdict.
RawBudget == 500

\* The dict built in the except branch of the file-upload path.
DegradedVerdict(raw) ==
    [
        overall_score |-> 75,
        overall_grade |-> "C",
        criteria_breakdown |-> <<
            [
                criterion |-> "Content",
                score_percentage |-> 70,
                weight |-> 30,
                strengths |-> <<"Basic content covered">>,
                deficiencies |-> <<"Analysis needed">>,
                recommendations |-> <<"Improve depth">>,
                needs_improvement |-> TRUE
            ]
        >>,
        summary |-> "Analysis completed but with parsing limitations.",
        raw_response |-> PySlice(raw, 0, RawBudget)
    ]

Init ==
    /\ pc = "idle"
    /\ entry = None
    /\ assignment_text = NoText
    /\ rubric_text = NoText
    /\ prompt = NoText
    /\ reply = None
    /\ analysis_result = NoText
    /\ analysis_data = None
    /\ uploads = {}
    /\ requests_sent = 0
    /\ response = None
    /\ story = None
    /\ report_data = None
    /\ assign_ids = None

\* A request reaches the route.
Receive ==
    /\ pc = "idle"
    /\ \E e \in Entries : entry' = e
    /\ pc' = "dispatch"
    /\ UNCHANGED <<assignment_text, rubric_text, prompt, reply, analysis_result,
                   analysis_data, uploads, requests_sent, response, story, report_data, assign_ids>>

\* request.is_json: read the two texts and reject an empty one.
JsonValidate ==
    /\ pc = "dispatch"
    /\ entry.kind = "json"
    /\ IF entry.data.type # "dict"
       THEN \* data.get raises AttributeError
            /\ pc' = "except"
            /\ UNCHANGED <<assignment_text, rubric_text, response>>
       ELSE LET a == Get(entry.data.value, "assignment_text", EmptyText)
                r == Get(entry.data.value, "rubric_text", EmptyText)
            IN  /\ assignment_text' = a
                /\ rubric_text' = r
                /\ IF a = EmptyText \/ r = EmptyText
                   THEN /\ response' = [kind |-> "json", success |-> FALSE,
                                        error |-> "Both assignment and rubric text are required"]
                        /\ pc' = "done"
                   ELSE /\ pc' = "build_prompt"
                        /\ UNCHANGED response
    /\ UNCHANGED <<entry, prompt, reply, analysis_result, analysis_data,
                   uploads, requests_sent, story, report_data, assign_ids>>

\* The file-upload branch: reject an empty filename.
FilesCheck ==
    /\ pc = "dispatch"
    /\ entry.kind = "files"
    /\ IF entry.assignment.filename = "" \/ entry.rubric.filename = ""
       THEN /\ response' = [kind |-> "html", template |-> "index.html",
                            error |-> "No files selected"]
            /\ pc' = "done"
       ELSE /\ pc' = "save_assignment"
            /\ UNCHANGED response
    /\ UNCHANGED <<entry, assignment_text, rubric_text, prompt, reply,
                   analysis_result, analysis_data, uploads, requests_sent, story, report_data, assign_ids>>

\* Neither JSON nor both file parts.
InvalidFormat ==
    /\ pc = "dispatch"
    /\ entry.kind = "other"
    /\ response' = [kind |-> "html", template |-> "index.html",
                    error |-> "Invalid request format"]
    /\ pc' = "done"
    /\ UNCHANGED <<entry, assignment_text, rubric_text, prompt, reply,
                   analysis_result, analysis_data, uploads, requests_sent, story, report_data, assign_ids>>

\* assignment_file.save(assign_path): writes the file, or raises.
SaveAssignment ==
    /\ pc = "save_assignment"
    /\ \E ok \in BOOLEAN :
          IF ok THEN /\ uploads' = uploads \cup {assign_path}
                     /\ pc' = "save_rubric"
                ELSE /\ pc' = "except"
                     /\ UNCHANGED uploads
    /\ UNCHANGED <<entry, assignment_text, rubric_text, prompt, reply,
                   analysis_result, analysis_data, requests_sent, response, story, report_data, assign_ids>>

\* rubric_file.save(rubric_path): writes the file, or raises.
SaveRubric ==
    /\ pc = "save_rubric"
    /\ \E ok \in BOOLEAN :
          IF ok THEN /\ uploads' = uploads \cup {rubric_path}
                     /\ pc' = "read_files"
                ELSE /\ pc' = "except"
                     /\ UNCHANGED uploads
    /\ UNCHANGED <<entry, assignment_text, rubric_text, prompt, reply,
                   analysis_result, analysis_data, requests_sent, response, story, report_data, assign_ids>>

\* read_file_content: the content, or the error text when reading raises.
read_file_content(content, ok) == IF ok THEN content ELSE ReadErrorText

ReadFiles ==
    /\ pc = "read_files"
    /\ \E okA \in BOOLEAN, okR \in BOOLEAN :
          /\ assignment_text' = read_file_content(entry.assignment.content, okA)
          /\ rubric_text' = read_file_content(entry.rubric.content, okR)
    /\ pc' = "build_prompt"
    /\ UNCHANGED <<entry, prompt, reply, analysis_result, analysis_data,
                   uploads, requests_sent, response, story, report_data, assign_ids>>

(***************************************************************************)
(* analyze_with_openrouter, called from both branches of upload_files.     *)
(***************************************************************************)

\* The prompt and payload are built; nothing is sent yet.
BuildPrompt ==
    /\ pc = "build_prompt"
    /\ prompt' = build_prompt(assignment_text, rubric_text)
    /\ pc' = "post"
    /\ UNCHANGED <<entry, assignment_text, rubric_text, reply, analysis_result,
                   analysis_data, uploads, requests_sent, response, story, report_data, assign_ids>>

\* Mutant of ProviderFails: a second request is sent before falling back.
ProviderFailsRetry(r) ==
    /\ pc = "post"
    /\ r.status = "failed"
    /\ requests_sent' = requests_sent + 2
    /\ reply' = r
    /\ analysis_result' = json_dumps(FallbackVerdict)
    /\ pc' = "parse"
    /\ UNCHANGED <<entry, assignment_text, rubric_text, prompt, analysis_data,
                   uploads, response, story, report_data, assign_ids>>

\* Mutant of ProviderFails: only the exceptions of requests are caught, the
\* others reach upload_files.
ProviderFailsNarrowExcept(r) ==
    /\ pc = "post"
    /\ r.status = "failed"
    /\ requests_sent' = requests_sent + 1
    /\ reply' = r
    /\ IF r.kind \in {"transport", "timeout", "http_status"}
       THEN /\ analysis_result' = json_dumps(FallbackVerdict)
            /\ pc' = "parse"
       ELSE /\ pc' = "except"
            /\ UNCHANGED analysis_result
    /\ UNCHANGED <<entry, assignment_text, rubric_text, prompt, analysis_data,
                   uploads, response, story, report_data, assign_ids>>

\* Mutant of ProviderFails: requests.post is called without a timeout, so a
\* provider that never answers raises nothing.
ProviderFailsNoTimeout(r) ==
    /\ pc = "post"
    /\ r.status = "failed"
    /\ r.kind # "timeout"
    /\ requests_sent' = requests_sent + 1
    /\ reply' = r
    /\ analysis_result' = json_dumps(FallbackVerdict)
    /\ pc' = "parse"
    /\ UNCHANGED <<entry, assignment_text, rubric_text, prompt, analysis_data,
                   uploads, response, story, report_data, assign_ids>>

\* requests.post is called once and the try block raises: the except branch
\* returns the serialised fallback verdict.
ProviderFails(r) ==
    /\ pc = "post"
    /\ r.status = "failed"
    /\ requests_sent' = requests_sent + 1
    /\ reply' = r
    /\ analysis_result' = json_dumps(FallbackVerdict)
    /\ pc' = "parse"
    /\ UNCHANGED <<entry, assignment_text, rubric_text, prompt, analysis_data,
                   uploads, response, story, report_data, assign_ids>>

\* requests.post is called once and answers with a usable body: the content
\* is cleaned and returned.
ProviderReplies(r) ==
    /\ pc = "post"
    /\ r.status = "ok"
    /\ requests_sent' = requests_sent + 1
    /\ reply' = r
    /\ analysis_result' = clean_response(r.content)
    /\ pc' = "parse"
    /\ UNCHANGED <<entry, assignment_text, rubric_text, prompt, analysis_data,
                   uploads, response, story, report_data, assign_ids>>

(***************************************************************************)
(* upload_files after the evaluation.                                      *)
(***************************************************************************)

\* Inline path: json.loads and the response.
ParseJson ==
    /\ pc = "parse"
    /\ entry.kind = "json"
    /\ LET parsed == json_loads(analysis_result)
       IN  IF parsed.ok
           THEN /\ analysis_data' = parsed.value
                /\ response' = [kind |-> "json", success |-> TRUE,
                                analysis |-> parsed.value]
                /\ pc' = "done"
           ELSE IF parsed.raised = "JSONDecodeError"
           THEN /\ response' = [kind |-> "json", success |-> FALSE,
                                error |-> "Failed to parse AI response",
                                raw_response |-> analysis_result]
                /\ pc' = "done"
                /\ UNCHANGED analysis_data
           ELSE /\ pc' = "except"
                /\ UNCHANGED <<analysis_data, response>>
    /\ UNCHANGED <<entry, assignment_text, rubric_text, prompt, reply,
                   analysis_result, uploads, requests_sent, story, report_data, assign_ids>>

\* File path: json.loads, or the degraded verdict on JSONDecodeError.
ParseFiles ==
    /\ pc = "parse"
    /\ entry.kind = "files"
    /\ LET parsed == json_loads(analysis_result)
       IN  IF parsed.ok
           THEN /\ analysis_data' = parsed.value
                /\ pc' = "remove_assignment"
           ELSE IF parsed.raised = "JSONDecodeError"
           THEN /\ analysis_data' = PyDict(DegradedVerdict(analysis_result))
                /\ pc' = "remove_assignment"
           ELSE /\ pc' = "except"
                /\ UNCHANGED analysis_data
    /\ UNCHANGED <<entry, assignment_text, rubric_text, prompt, reply,
                   analysis_result, uploads, requests_sent, response, story, report_data, assign_ids>>

\* os.remove(assign_path) inside try/except-pass: a failure skips the
\* second removal.
RemoveAssignment ==
    /\ pc = "remove_assignment"
    /\ \E ok \in BOOLEAN :
          IF ok THEN /\ uploads' = uploads \ {assign_path}
                     /\ pc' = "remove_rubric"
                ELSE /\ pc' = "render"
                     /\ UNCHANGED uploads
    /\ UNCHANGED <<entry, assignment_text, rubric_text, prompt, reply,
                   analysis_result, analysis_data, requests_sent, response, story, report_data, assign_ids>>

\* os.remove(rubric_path) inside the same try/except-pass.
RemoveRubric ==
    /\ pc = "remove_rubric"
    /\ \E ok \in BOOLEAN :
          /\ uploads' = IF ok THEN uploads \ {rubric_path} ELSE uploads
          /\ pc' = "render"
    /\ UNCHANGED <<entry, assignment_text, rubric_text, prompt, reply,
                   analysis_result, analysis_data, requests_sent, response, story, report_data, assign_ids>>

\* render_template('result.html', ...): the page, or an exception.
RenderResult ==
    /\ pc = "render"
    /\ \E ok \in BOOLEAN :
          IF ok THEN /\ response' = [kind |-> "html", template |-> "result.html",
                                     analysis |-> analysis_data,
                                     assignment_name |-> entry.assignment.filename,
                                     rubric_name |-> entry.rubric.filename]
                     /\ pc' = "done"
                ELSE /\ pc' = "except"
                     /\ UNCHANGED response
    /\ UNCHANGED <<entry, assignment_text, rubric_text, prompt, reply,
                   analysis_result, analysis_data, uploads, requests_sent, story, report_data, assign_ids>>

\* The outer except of upload_files.
ExceptHandler ==
    /\ pc = "except"
    /\ response' = IF entry.kind = "json"
                   THEN [kind |-> "json", success |-> FALSE, error |-> "Error: ..."]
                   ELSE [kind |-> "html", template |-> "index.html",
                         error |-> "Error: ..."]
    /\ pc' = "done"
    /\ UNCHANGED <<entry, assignment_text, rubric_text, prompt, reply,
                   analysis_result, analysis_data, uploads, requests_sent, story, report_data, assign_ids>>

Next ==
    \/ Receive
    \/ JsonValidate
    \/ FilesCheck
    \/ InvalidFormat
    \/ SaveAssignment
    \/ SaveRubric
    \/ ReadFiles
    \/ BuildPrompt
    \/ \E r \in Replies : ProviderReplies(r)
    \/ \E r \in Replies : ProviderFails(r)
    \/ ParseJson
    \/ ParseFiles
    \/ RemoveAssignment
    \/ RemoveRubric
    \/ RenderResult
    \/ ExceptHandler

Spec == Init /\ [][Next]_vars

(***************************************************************************)
(* generate_pdf_report: the story list, one element per story.append.      *)
(* A Paragraph keeps its f-string as the format and the substituted        *)
(* values.                                                                 *)
(***************************************************************************)

Paragraph(fmt, args, style) ==
    [el |-> "Paragraph", style |-> style, fmt |-> fmt, args |-> args]
Spacer(h)  == [el |-> "Spacer", style |-> "", fmt |-> "", args |-> <<h>>]
PageBreak  == [el |-> "PageBreak", style |-> "", fmt |-> "", args |-> <<>>]
Table(rows) == [el |-> "Table", style |-> "", fmt |-> "", args |-> rows]

RECURSIVE Flatten(_)
Flatten(ss) == IF ss = <<>> THEN <<>> ELSE Head(ss) \o Flatten(Tail(ss))

\* one bullet Paragraph per item of a list
Bullets(items) ==
    [i \in 1 .. Len(items) |-> Paragraph("(bullet) {}", <<items[i]>>, "normal")]

\* d.get(key) is truthy, for a key holding a str, a list or dict, a number
TruthyStr(d, key)  == key \in DOMAIN d /\ d[key] # ""
TruthyColl(d, key) == key \in DOMAIN d /\ DOMAIN d[key] # {}
TruthyNum(d, key)  == key \in DOMAIN d /\ d[key] # 0

\* d.get(key) and len(d[key]) > 0
NonEmptyList(d, key) == TruthyColl(d, key) /\ Len(d[key]) > 0

\* Mutant of score_color: the lower threshold is tested first.
score_colorLowFirst(score_percentage) ==
    IF score_percentage >= 50 THEN "Needs Work"
    ELSE IF score_percentage >= 70 THEN "Good"
    ELSE "Poor"

\* Mutant of score_color: the upper boundary is exclusive.
score_colorExclusive(score_percentage) ==
    IF score_percentage > 70 THEN "Good"
    ELSE IF score_percentage >= 50 THEN "Needs Work"
    ELSE "Poor"

\* The "Performance Level" of a criterion.
score_color(score_percentage) ==
    IF score_percentage >= 70 THEN "Good"
    ELSE IF score_percentage >= 50 THEN "Needs Work"
    ELSE "Poor"

\* Title page, assignment table, executive summary, grade justification.
TitleSection(report) ==
    << Paragraph("RUBRIX Assignment Analysis Report", <<>>, "title"),
       Spacer(40),
       Paragraph("AI-Powered Academic Evaluation", <<>>, "subtitle"),
       Spacer(40),
       Table(<< <<"Assignment:", Get(report, "assignment", "N/A")>>,
                <<"Rubric:", Get(report, "rubric", "N/A")>>,
                <<"Overall Score:", <<Get(report, "overall_score", "N/A"), "/100">> >>,
                <<"Overall Grade:", Get(report, "overall_grade", "N/A")>>,
                <<"Report Generated:", Get(report, "timestamp", "NOW")>> >>),
       Spacer(30),
       Paragraph("Executive Summary", <<>>, "heading"),
       Paragraph("{}", <<Get(report, "summary", "No summary available.")>>, "normal") >>
    \o (IF TruthyStr(report, "grade_justification")
        THEN << Spacer(20),
                Paragraph("Grade Justification", <<>>, "heading"),
                Paragraph("{}", <<report.grade_justification>>, "normal") >>
        ELSE <<>>)
    \o << PageBreak >>

\* Mutant of DeficiencyEntry: the numbering starts at 0.
DeficiencyEntryFromZero(i, deficiency) ==
    << Paragraph("<b>{}. {}</b>", <<i - 1, Get(deficiency, "issue", "N/A")>>, "subheading") >>
    \o (IF TruthyStr(deficiency, "priority")
        THEN << Paragraph("Priority: {upper}", <<deficiency.priority>>, "normal") >>
        ELSE <<>>)
    \o (IF TruthyStr(deficiency, "evidence")
        THEN << Paragraph("<i>Evidence:</i> \"{}\"", <<deficiency.evidence>>, "normal") >>
        ELSE <<>>)
    \o (IF TruthyStr(deficiency, "remediation")
        THEN << Paragraph("<i>How to Fix:</i> {}", <<deficiency.remediation>>, "normal") >>
        ELSE <<>>)
    \o << Spacer(15) >>

DeficiencyEntry(i, deficiency) ==
    << Paragraph("<b>{}. {}</b>", <<i, Get(deficiency, "issue", "N/A")>>, "subheading") >>
    \o (IF TruthyStr(deficiency, "priority")
        THEN << Paragraph("Priority: {upper}", <<deficiency.priority>>, "normal") >>
        ELSE <<>>)
    \o (IF TruthyStr(deficiency, "evidence")
        THEN << Paragraph("<i>Evidence:</i> \"{}\"", <<deficiency.evidence>>, "normal") >>
        ELSE <<>>)
    \o (IF TruthyStr(deficiency, "remediation")
        THEN << Paragraph("<i>How to Fix:</i> {}", <<deficiency.remediation>>, "normal") >>
        ELSE <<>>)
    \o << Spacer(15) >>

DeficienciesSection(report) ==
    IF NonEmptyList(report, "critical_deficiencies")
    THEN << Paragraph("Critical Deficiencies", <<>>, "heading"),
            Paragraph("These issues require immediate attention:", <<>>, "subheading"),
            Spacer(10) >>
         \o Flatten([i \in 1 .. Len(report.critical_deficiencies) |->
                        DeficiencyEntry(i, report.critical_deficiencies[i])])
    ELSE <<>>

CriterionEntry(criterion) ==
    LET score_percentage == Get(criterion, "score_percentage", 0)
        weight == Get(criterion, "weight", 0)
    IN  << Paragraph("<b>{}</b> - Score: {}% (Weight: {}%)",
                     <<Get(criterion, "criterion", "N/A"), score_percentage, weight>>,
                     "subheading"),
           Paragraph("Performance Level: {}", <<score_color(score_percentage)>>, "normal") >>
        \o (IF NonEmptyList(criterion, "strengths")
            THEN << Paragraph("<b>Strengths:</b>", <<>>, "normal") >>
                 \o Bullets(criterion.strengths)
            ELSE <<>>)
        \o (IF NonEmptyList(criterion, "deficiencies")
            THEN << Paragraph("<b>Areas Needing Improvement:</b>", <<>>, "normal") >>
                 \o Bullets(criterion.deficiencies)
            ELSE <<>>)
        \o (IF NonEmptyList(criterion, "recommendations")
            THEN << Paragraph("<b>Specific Recommendations:</b>", <<>>, "normal") >>
                 \o Bullets(criterion.recommendations)
            ELSE <<>>)
        \o << Spacer(20) >>

\* Mutant of CriteriaSection: the section is rendered when the key is there.
CriteriaSectionOnKey(report) ==
    IF "criteria" \in DOMAIN report
    THEN << PageBreak,
            Paragraph("Detailed Criteria Analysis", <<>>, "heading") >>
         \o Flatten([i \in 1 .. Len(report.criteria) |->
                        CriterionEntry(report.criteria[i])])
    ELSE <<>>

CriteriaSection(report) ==
    IF NonEmptyList(report, "criteria")
    THEN << PageBreak,
            Paragraph("Detailed Criteria Analysis", <<>>, "heading") >>
         \o Flatten([i \in 1 .. Len(report.criteria) |->
                        CriterionEntry(report.criteria[i])])
    ELSE <<>>

StrengthEntry(i, strength) ==
    << Paragraph("<b>{}. {}</b>", <<i, Get(strength, "strength", "N/A")>>, "subheading") >>
    \o (IF TruthyStr(strength, "evidence")
        THEN << Paragraph("Evidence: \"{}\"", <<strength.evidence>>, "normal") >>
        ELSE <<>>)
    \o (IF TruthyStr(strength, "reinforcement")
        THEN << Paragraph("How to build on this: {}", <<strength.reinforcement>>, "normal") >>
        ELSE <<>>)
    \o << Spacer(10) >>

\* Mutant of StrengthsSection: the section is rendered when the key is there.
StrengthsSectionOnKey(report) ==
    IF "strengths_to_build" \in DOMAIN report
    THEN << PageBreak,
            Paragraph("Key Strengths to Build Upon", <<>>, "heading") >>
         \o Flatten([i \in 1 .. Len(report.strengths_to_build) |->
                        StrengthEntry(i, report.strengths_to_build[i])])
    ELSE <<>>

StrengthsSection(report) ==
    IF NonEmptyList(report, "strengths_to_build")
    THEN << PageBreak,
            Paragraph("Key Strengths to Build Upon", <<>>, "heading") >>
         \o Flatten([i \in 1 .. Len(report.strengths_to_build) |->
                        StrengthEntry(i, report.strengths_to_build[i])])
    ELSE <<>>

StructuralSection(report) ==
    IF TruthyColl(report, "structural_analysis")
    THEN LET struct == report.structural_analysis
         IN  << PageBreak,
                Paragraph("Structural Analysis", <<>>, "heading") >>
             \o (IF TruthyStr(struct, "organization")
                 THEN << Paragraph("<b>Organization:</b>", <<>>, "subheading"),
                         Paragraph("{}", <<struct.organization>>, "normal"),
                         Spacer(10) >>
                 ELSE <<>>)
             \o (IF TruthyStr(struct, "argument_development")
                 THEN << Paragraph("<b>Argument Development:</b>", <<>>, "subheading"),
                         Paragraph("{}", <<struct.argument_development>>, "normal"),
                         Spacer(10) >>
                 ELSE <<>>)
             \o (IF TruthyStr(struct, "technical_compliance")
                 THEN << Paragraph("<b>Technical Compliance:</b>", <<>>, "subheading"),
                         Paragraph("{}", <<struct.technical_compliance>>, "normal") >>
                 ELSE <<>>)
    ELSE <<>>

\* Mutant of RevisionBucket: the bucket is rendered when its key is there.
RevisionBucketOnKey(recs, key, title, spaced) ==
    IF key \in DOMAIN recs
    THEN << Paragraph(title, <<>>, "subheading") >>
         \o Bullets(recs[key])
         \o (IF spaced THEN << Spacer(10) >> ELSE <<>>)
    ELSE <<>>

\* One bucket of the revision action plan; the last one has no Spacer.
RevisionBucket(recs, key, title, spaced) ==
    IF NonEmptyList(recs, key)
    THEN << Paragraph(title, <<>>, "subheading") >>
         \o Bullets(recs[key])
         \o (IF spaced THEN << Spacer(10) >> ELSE <<>>)
    ELSE <<>>

RevisionSection(report) ==
    IF TruthyColl(report, "revision_recommendations")
    THEN LET recs == report.revision_recommendations
         IN  << PageBreak,
                Paragraph("Revision Action Plan", <<>>, "heading") >>
             \o RevisionBucket(recs, "high_priority", "<b>High Priority (Do First):</b>", TRUE)
             \o RevisionBucket(recs, "content_improvements", "<b>Content Improvements:</b>", TRUE)
             \o RevisionBucket(recs, "structural_changes", "<b>Structural Changes:</b>", TRUE)
             \o RevisionBucket(recs, "technical_fixes", "<b>Technical Fixes:</b>", FALSE)
    ELSE <<>>

\* sub in s, for two texts
Contains(s, sub) ==
    \E i \in 0 .. (Len(s) - Len(sub)) : SubSeq(s, i + 1, i + Len(sub)) = sub

\* The literals 'Ready', 'Minor' and the default status 'Not Assessed'.
ReadyText       == <<"R", "e", "a", "d", "y">>
MinorText       == <<"M", "i", "n", "o", "r">>
NotAssessedText == <<"N", "o", "t", " ", "A", "s", "s", "e", "s", "s", "e", "d">>

\* Mutant of status_color: 'Minor' is looked for first.
status_colorMinorFirst(status) ==
    IF Contains(status, MinorText) THEN "orange"
    ELSE IF Contains(status, ReadyText) THEN "green"
    ELSE "red"

\* The colour of the readiness status.
status_color(status) ==
    IF Contains(status, ReadyText) THEN "green"
    ELSE IF Contains(status, MinorText) THEN "orange"
    ELSE "red"

ReadinessSection(report) ==
    IF TruthyColl(report, "readiness_assessment")
    THEN LET readiness == report.readiness_assessment
             status == Get(readiness, "status", NotAssessedText)
         IN  << Spacer(20),
                Paragraph("Readiness Assessment", <<>>, "heading"),
                Paragraph("<b>Status:</b> <font color='{}'>{}</font>",
                          <<status_color(status), status>>, "normal") >>
             \o (IF TruthyNum(readiness, "estimated_revision_hours")
                 THEN << Paragraph("<b>Estimated Revision Time:</b> {} hours",
                                   <<readiness.estimated_revision_hours>>, "normal") >>
                 ELSE <<>>)
             \o (IF NonEmptyList(readiness, "key_barriers")
                 THEN << Spacer(10),
                         Paragraph("<b>Key Barriers to Higher Score:</b>", <<>>, "subheading") >>
                      \o Bullets(readiness.key_barriers)
                 ELSE <<>>)
    ELSE <<>>

FooterSection(report) ==
    << PageBreak,
       Paragraph("Report Notes", <<>>, "heading"),
       Paragraph("This report was generated by RUBRIX AI-Powered Assignment Analysis System.",
                 <<>>, "normal"),
       Spacer(10),
       Paragraph("For questions or additional support, please contact your instructor or academic advisor.",
                 <<>>, "normal"),
       Spacer(10),
       Paragraph("Report ID: {}", <<Get(report, "analysis_id", "NEWID")>>, "normal"),
       Paragraph("Generated on: {}", <<"NOW">>, "normal") >>

\* Mutant of generate_pdf_report: the strengths come before the criteria.
generate_pdf_reportStrengthsFirst(report) ==
    TitleSection(report)
        \o DeficienciesSection(report)
        \o StrengthsSection(report)
        \o CriteriaSection(report)
        \o StructuralSection(report)
        \o RevisionSection(report)
        \o ReadinessSection(report)
        \o FooterSection(report)

generate_pdf_report(report) ==
    TitleSection(report)
        \o DeficienciesSection(report)
        \o CriteriaSection(report)
        \o StrengthsSection(report)
        \o StructuralSection(report)
        \o RevisionSection(report)
        \o ReadinessSection(report)
        \o FooterSection(report)

(***************************************************************************)
(* download_pdf, the handler of POST /download-pdf.                        *)
(***************************************************************************)

\* How far below 0 and above 100 the scores of the rendered criteria range.
ScoreMargin == 5

ScoreRange     == (0 - ScoreMargin) .. (100 + ScoreMargin)
BoundaryScores == {49, 50, 69, 70, 72}

Criterion(score) ==
    [criterion |-> "X", score_percentage |-> score, weight |-> 25,
     strengths |-> <<"s1">>, deficiencies |-> <<>>,
     recommendations |-> <<"r1", "r2">>, needs_improvement |-> score < 70]

\* A criterion without score_percentage and without the list keys.
BareCriterion == [criterion |-> "Y"]

CriteriaLists ==
    {<<>>, <<BareCriterion>>}
        \cup {<<Criterion(s)>> : s \in ScoreRange}
        \cup {<<Criterion(s), Criterion(t)>> : s \in BoundaryScores, t \in BoundaryScores}

BaseReport ==
    [overall_score |-> 85, overall_grade |-> "B", summary |-> "Good work",
     critical_deficiencies |-> <<>>, strengths_to_build |-> <<>>]

\* f @@ g without the TLC module's operator precedence: g where f is undefined.
Extend(f, g) ==
    [k \in (DOMAIN f) \cup (DOMAIN g) |-> IF k \in DOMAIN f THEN f[k] ELSE g[k]]

AssignmentName == <<"m", "y", " ", "e", "s", "s", "a", "y">>

\* Reports that differ in their criteria, assignment name and identifier.
CriteriaReports ==
    {Extend(Extend(BaseReport, c), Extend(a, i)) :
        c \in {<<>>} \cup {[criteria |-> l] : l \in CriteriaLists},
        a \in {<<>>, [assignment |-> AssignmentName]},
        i \in {<<>>, [analysis_id |-> "abcd1234"]}}

\* Most pieces a readiness status is put together from.
MaxWords == 3

\* Pieces of status texts: the two words the renderer looks for, their
\* halves, a lower-case variant and filler.
StatusPieces ==
    { <<"R", "e", "a", "d", "y">>, <<"M", "i", "n", "o", "r">>, <<"R", "e", "a">>, <<"d", "y">>, <<"M", "i", "n">>, <<"o", "r">>, <<"r", "e", "a", "d", "y">>, <<" ">>, <<"x">> }

RECURSIVE Concat(_)
Concat(ss) == IF ss = <<>> THEN <<>> ELSE Head(ss) \o Concat(Tail(ss))

ReadyForSubmissionText ==
    <<"R", "e", "a", "d", "y", " ", "f", "o", "r", " ", "S", "u", "b", "m", "i", "s", "s", "i", "o", "n">>
NeedsMinorRevisionsText ==
    <<"N", "e", "e", "d", "s", " ", "M", "i", "n", "o", "r", " ", "R", "e", "v", "i", "s", "i", "o", "n", "s">>

Statuses ==
    {Concat(ws) : ws \in SeqsUpTo(StatusPieces, MaxWords)}
        \cup {ReadyForSubmissionText, NeedsMinorRevisionsText,
              NeedsMajorRevisionText, NotAssessedText}

\* Reports that differ in the status of their readiness assessment; the
\* last two hold a readiness record without a status.
ReadinessReports ==
    {Extend(BaseReport, [readiness_assessment |-> [status |-> st]]) : st \in Statuses}
        \cup {Extend(BaseReport, [readiness_assessment |-> [estimated_revision_hours |-> 5]]),
              Extend(BaseReport, [readiness_assessment |-> [key_barriers |-> <<"b1">>]])}

\* The dicts that hold, for every key of full, either nothing, the value of
\* empty or the value of full.
Variant(ch, empty, full) ==
    [k \in {x \in DOMAIN ch : ch[x] # "missing"} |->
        IF ch[k] = "empty" THEN empty[k] ELSE full[k]]

Variants(empty, full) ==
    {Variant(ch, empty, full) : ch \in [DOMAIN full -> {"missing", "empty", "full"}]}

FullDeficiency ==
    [issue |-> "i1", evidence |-> "e1", priority |-> "high", remediation |-> "fix1"]
FullStrength ==
    [strength |-> "st1", evidence |-> "e1", reinforcement |-> "re1"]
FullStructural ==
    [organization |-> "org", argument_development |-> "arg",
     technical_compliance |-> "tech"]
FullRevision ==
    [high_priority |-> <<"h1">>, content_improvements |-> <<"c1", "c2">>,
     structural_changes |-> <<"s1">>, technical_fixes |-> <<"t1">>]
FullReadiness ==
    [status |-> NeedsMinorRevisionsText, estimated_revision_hours |-> 5,
     key_barriers |-> <<"b1", "b2">>]

\* The optional parts of a Report, filled and empty.
FullParts ==
    [grade_justification |-> "Because.",
     critical_deficiencies |-> <<FullDeficiency, [issue |-> "i2"]>>,
     criteria |-> <<Criterion(72), BareCriterion>>,
     strengths_to_build |-> <<FullStrength, [strength |-> "st2"]>>,
     structural_analysis |-> FullStructural,
     revision_recommendations |-> FullRevision,
     readiness_assessment |-> FullReadiness]

EmptyParts ==
    [grade_justification |-> "",
     critical_deficiencies |-> <<>>,
     criteria |-> <<>>,
     strengths_to_build |-> <<>>,
     structural_analysis |-> <<>>,
     revision_recommendations |-> <<>>,
     readiness_assessment |-> <<>>]

CoreReport ==
    [overall_score |-> 85, overall_grade |-> "B", summary |-> "Good work"]

\* Reports holding every combination of missing, empty and filled
\* optional parts.
OptionalReports == {Extend(CoreReport, v) : v \in Variants(EmptyParts, FullParts)}

\* Reports without a summary, with an empty one, and without score and grade.
SummaryReports ==
    {Extend(c, m) :
        c \in {<<>>, [overall_score |-> 85, overall_grade |-> "B"]},
        m \in {<<>>, [summary |-> ""], [summary |-> "Good work"]}}

\* Reports with and without the two keys download_pdf defaults.
DefaultedReports ==
    {Extend(CoreReport, Extend(i, t)) :
        i \in {<<>>, [analysis_id |-> "abcd1234"], [analysis_id |-> ""]},
        t \in {<<>>, [timestamp |-> "2024-01-01 00:00:00"]}}

\* A str where the renderer expects a dict.
PyStr(s) == [type |-> "str", value |-> s]

\* Reports whose shape the renderer cannot handle: a str among the elements
\* of one of the three lists, or in the place of an optional record.
MalformedReports ==
    {Extend(CoreReport, m) :
        m \in {[critical_deficiencies |-> <<PyStr("abc")>>],
               [criteria |-> <<Criterion(72), PyStr("abc")>>],
               [strengths_to_build |-> <<FullStrength, PyStr("abc")>>],
               [structural_analysis |-> PyStr("abc")],
               [revision_recommendations |-> PyStr("abc")],
               [readiness_assessment |-> PyStr("abc")]}}

\* Reports with assignment names of several shapes, with and without a score.
AssignmentNames ==
    { <<>>, <<"a">>, <<" ">>, <<" ", "a", " ", " ", "b", " ">>, <<"a", "\t", "b", " ", "c">> }

NamedReports ==
    {Extend([assignment |-> n], c) :
        n \in AssignmentNames,
        c \in {<<>>, [overall_score |-> 85], [overall_score |-> 0, summary |-> "s"]}}

\* The sub-parts of the three optional records, empty.
EmptyStructural ==
    [organization |-> "", argument_development |-> "", technical_compliance |-> ""]
EmptyRevision ==
    [high_priority |-> <<>>, content_improvements |-> <<>>,
     structural_changes |-> <<>>, technical_fixes |-> <<>>]
EmptyReadiness ==
    [status |-> <<>>, estimated_revision_hours |-> 0, key_barriers |-> <<>>]

\* Reports with one optional record in which every sub-part is missing,
\* empty or filled, independently of the others.
SubPartReports ==
    {Extend(CoreReport, [structural_analysis |-> v]) :
        v \in Variants(EmptyStructural, FullStructural)}
    \cup {Extend(CoreReport, [revision_recommendations |-> v]) :
        v \in Variants(EmptyRevision, FullRevision)}
    \cup {Extend(CoreReport, [readiness_assessment |-> v]) :
        v \in Variants(EmptyReadiness, FullReadiness)}

Reports ==
    {FallbackVerdict, ExampleVerdict}
        \cup CriteriaReports
        \cup ReadinessReports
        \cup OptionalReports
        \cup SummaryReports
        \cup DefaultedReports
        \cup MalformedReports
        \cup NamedReports
        \cup SubPartReports
        \cup {DegradedVerdict(<<"x">>)}

PdfBodies == {PyDict(r) : r \in Reports} \cup {PyList(<<>>)}

\* Mutant of replace_spaces: only the first space is replaced.
replace_spacesFirst(s) ==
    [i \in 1 .. Len(s) |->
        IF s[i] = " " /\ (\A j \in 1 .. i - 1 : s[j] # " ") THEN "_" ELSE s[i]]

\* str.replace(' ', '_')
replace_spaces(s) == [i \in 1 .. Len(s) |-> IF s[i] = " " THEN "_" ELSE s[i]]

AnalysisText == <<"a", "n", "a", "l", "y", "s", "i", "s">>

InitPdf ==
    /\ pc = "pdf_idle"
    /\ entry = None
    /\ assignment_text = NoText
    /\ rubric_text = NoText
    /\ prompt = NoText
    /\ reply = None
    /\ analysis_result = NoText
    /\ analysis_data = None
    /\ uploads = {}
    /\ requests_sent = 0
    /\ response = None
    /\ story = None
    /\ report_data = None
    /\ assign_ids = None

\* A request reaches the route.
PdfReceive ==
    /\ pc = "pdf_idle"
    /\ \E b \in PdfBodies : entry' = [kind |-> "pdf", data |-> b]
    /\ pc' = "pdf_defaults"
    /\ UNCHANGED <<assignment_text, rubric_text, prompt, reply, analysis_result,
                   analysis_data, uploads, requests_sent, response, story, report_data, assign_ids>>

\* Mutant of PdfDefaults: the two keys are assigned whether present or not.
PdfDefaultsOverwrite ==
    /\ pc = "pdf_defaults"
    /\ IF entry.data.type # "dict"
       THEN /\ pc' = "pdf_except"
            /\ UNCHANGED report_data
       ELSE /\ report_data' =
                   Extend([analysis_id |-> "NEWID", timestamp |-> "NOW"],
                          entry.data.value)
            /\ pc' = "pdf_generate"
    /\ UNCHANGED <<entry, assignment_text, rubric_text, prompt, reply,
                   analysis_result, analysis_data, uploads, requests_sent,
                   response, story, assign_ids>>

\* request.get_json() and the two defaulted keys.
PdfDefaults ==
    /\ pc = "pdf_defaults"
    /\ IF entry.data.type # "dict"
       THEN \* item assignment on a non-dict raises TypeError
            /\ pc' = "pdf_except"
            /\ UNCHANGED report_data
       ELSE /\ report_data' =
                   Extend(entry.data.value,
                          [analysis_id |-> "NEWID", timestamp |-> "NOW"])
            /\ pc' = "pdf_generate"
    /\ UNCHANGED <<entry, assignment_text, rubric_text, prompt, reply,
                   analysis_result, analysis_data, uploads, requests_sent,
                   response, story, assign_ids>>

\* The value has no get(): it is not a dict.
NotDict(v) == "type" \in DOMAIN v /\ v.type # "dict"

\* generate_pdf_report raises AttributeError: deficiency.get, criterion.get
\* or strength.get on an element that is no dict, or struct.get, recs.get
\* or readiness.get on a record that is no dict.
raises(report) ==
    \/ \E key \in {"critical_deficiencies", "criteria", "strengths_to_build"} :
          /\ key \in DOMAIN report
          /\ \E i \in 1 .. Len(report[key]) : NotDict(report[key][i])
    \/ \E key \in {"structural_analysis", "revision_recommendations",
                    "readiness_assessment"} :
          /\ key \in DOMAIN report
          /\ NotDict(report[key])

\* pdf_bytes = generate_pdf_report(report_data)
PdfGenerate ==
    /\ pc = "pdf_generate"
    /\ IF raises(report_data)
       THEN /\ pc' = "pdf_except"
            /\ UNCHANGED story
       ELSE /\ story' = generate_pdf_report(report_data)
            /\ pc' = "pdf_respond"
    /\ UNCHANGED <<entry, assignment_text, rubric_text, prompt, reply,
                   analysis_result, analysis_data, uploads, requests_sent,
                   response, report_data, assign_ids>>

\* The response and its two headers.
PdfRespond ==
    /\ pc = "pdf_respond"
    /\ response' =
          [kind |-> "pdf", content_type |-> "application/pdf",
           filename |-> << "RUBRIX_Report_",
                           replace_spaces(Get(report_data, "assignment", AnalysisText)),
                           "_",
                           Get(report_data, "overall_score", "score"),
                           ".pdf" >>]
    /\ pc' = "done"
    /\ UNCHANGED <<entry, assignment_text, rubric_text, prompt, reply,
                   analysis_result, analysis_data, uploads, requests_sent,
                   story, report_data, assign_ids>>

\* Mutant of PdfExcept: the status of the error payload is left out.
PdfExceptNoStatus ==
    /\ pc = "pdf_except"
    /\ response' = [kind |-> "json", success |-> FALSE,
                    error |-> "PDF generation failed: ...", status |-> 200]
    /\ pc' = "done"
    /\ UNCHANGED <<entry, assignment_text, rubric_text, prompt, reply,
                   analysis_result, analysis_data, uploads, requests_sent,
                   story, report_data, assign_ids>>

\* The except branch of download_pdf.
PdfExcept ==
    /\ pc = "pdf_except"
    /\ response' = [kind |-> "json", success |-> FALSE,
                    error |-> "PDF generation failed: ...", status |-> 500]
    /\ pc' = "done"
    /\ UNCHANGED <<entry, assignment_text, rubric_text, prompt, reply,
                   analysis_result, analysis_data, uploads, requests_sent,
                   story, report_data, assign_ids>>

NextPdf ==
    \/ PdfReceive
    \/ PdfDefaults
    \/ PdfGenerate
    \/ PdfRespond
    \/ PdfExcept

SpecPdf == InitPdf /\ [][NextPdf]_vars

(***************************************************************************)
(* The prompt of analyze_with_openrouter on long inputs.                   *)
(***************************************************************************)

InitPrompt ==
    /\ pc = "build_prompt"
    /\ entry = None
    /\ assignment_text \in PromptTexts
    /\ rubric_text \in PromptTexts
    /\ prompt = NoText
    /\ reply = None
    /\ analysis_result = NoText
    /\ analysis_data = None
    /\ uploads = {}
    /\ requests_sent = 0
    /\ response = None
    /\ story = None
    /\ report_data = None
    /\ assign_ids = None

NextPrompt == BuildPrompt

SpecPrompt == InitPrompt /\ [][NextPrompt]_vars

(***************************************************************************)
(* The cleaning step of analyze_with_openrouter on every short reply.      *)
(***************************************************************************)

InitClean ==
    /\ pc = "post"
    /\ entry = None
    /\ assignment_text = <<"a">>
    /\ rubric_text = <<"a">>
    /\ prompt = build_prompt(<<"a">>, <<"a">>)
    /\ reply = None
    /\ analysis_result = NoText
    /\ analysis_data = None
    /\ uploads = {}
    /\ requests_sent = 0
    /\ response = None
    /\ story = None
    /\ report_data = None
    /\ assign_ids = None

NextClean == \E r \in CleanReplies : ProviderReplies(r)

SpecClean == InitClean /\ [][NextClean]_vars

(***************************************************************************)
(* Properties.                                                             *)
(***************************************************************************)

\* C1: the prompt embeds exactly the first min(len, 4000) characters of the
\* rubric and the first min(len, 6000) characters of the assignment: each
\* embedded text is a prefix of its input and no longer than its budget.
PromptEmbedsPrefixes ==
    pc = "post" =>
        /\ Len(prompt[2]) = Min(Len(rubric_text), 4000)
        /\ \A i \in 1 .. Len(prompt[2]) : prompt[2][i] = rubric_text[i]
        /\ Len(prompt[4]) = Min(Len(assignment_text), 6000)
        /\ \A i \in 1 .. Len(prompt[4]) : prompt[4][i] = assignment_text[i]

\* Both inputs are over budget and both were cut.
PromptCutBoth ==
    /\ pc = "post"
    /\ Len(rubric_text) > 4000
    /\ Len(assignment_text) > 6000
    /\ Len(prompt[2]) = 4000
    /\ Len(prompt[4]) = 6000

\* The non-optional top-level fields of the Report of the data model.
ReportKeys ==
    {"overall_score", "overall_grade", "criteria", "critical_deficiencies",
     "strengths_to_build", "summary"}

\* C2: when the provider call fails, the function returns the one fixed
\* fallback text, which decodes to a dict with every Report field, the
\* grade "C+" and a note.
FallbackIsReport ==
    (pc = "parse" /\ reply.status = "failed") =>
        LET parsed == json_loads(analysis_result)
        IN  /\ analysis_result = FallbackText
            /\ parsed.ok
            /\ parsed.value.type = "dict"
            /\ "note" \in DOMAIN parsed.value.value
            /\ parsed.value.value.overall_grade = "C+"
            /\ ReportKeys \subseteq DOMAIN parsed.value.value

\* C3: a request sends at most one request to the provider, none before the
\* call and exactly one once analyze_with_openrouter has returned, also
\* after a failure.
OneProviderRequest ==
    /\ requests_sent <= 1
    /\ reply = None => requests_sent = 0
    /\ reply # None => requests_sent = 1

\* A request whose provider call failed has finished.
FailedCallFinished ==
    /\ pc = "done"
    /\ reply # None
    /\ reply.status = "failed"
    /\ requests_sent = 1

\* C4 as stated: for every payload X and each of the three forms of the
\* reply, the cleaned text is X.strip().
CleanedIsStrippedPayload ==
    pc = "parse" => analysis_result = strip(reply.payload)

\* C4 amended: the cleaned text is X.strip() in both fenced forms, and in
\* the unfenced form when X.strip() does not itself begin with three
\* backticks.
CleanedIsStrippedUnlessFenced ==
    (pc = "parse" /\ ~(reply.form = "none" /\ startswith(strip(reply.payload), Fence)))
        => analysis_result = strip(reply.payload)

\* A payload with outer whitespace came back in a json fence and was cleaned.
CleanedJsonFence ==
    /\ pc = "parse"
    /\ reply.form = "json"
    /\ reply.payload = <<"\n", "x", "\n">>
    /\ analysis_result = <<"x">>

\* The verdict text is not valid JSON.
VerdictMalformed ==
    LET parsed == json_loads(analysis_result)
    IN  ~parsed.ok /\ parsed.raised = "JSONDecodeError"

\* The criteria of a verdict, under either key the code uses.
CriteriaOf(d) ==
    IF "criteria" \in DOMAIN d THEN d.criteria
    ELSE IF "criteria_breakdown" \in DOMAIN d THEN d.criteria_breakdown
    ELSE <<>>

IsDegraded(v, raw) ==
    /\ v.type = "dict"
    /\ Len(CriteriaOf(v.value)) = 1
    /\ "summary" \in DOMAIN v.value
    /\ v.value.summary # ""
    /\ "raw_response" \in DOMAIN v.value
    /\ v.value.raw_response = PySlice(raw, 0, RawBudget)

\* C5: on both entry paths a verdict that is not valid JSON yields a
\* degraded Report (one criterion, a summary, the raw text), never a
\* failed call.
MalformedVerdictDegrades ==
    /\ (pc = "done" /\ entry.kind = "json" /\ reply # None /\ VerdictMalformed)
           => /\ response.success
              /\ IsDegraded(response.analysis, analysis_result)
    /\ (pc = "remove_assignment" /\ VerdictMalformed)
           => IsDegraded(analysis_data, analysis_result)

\* C6: on both entry paths an empty assignment or rubric text is rejected
\* with a validation error and nothing is sent to the provider.
EmptyTextRejected ==
    (assignment_text = EmptyText \/ rubric_text = EmptyText) =>
        /\ requests_sent = 0
        /\ pc = "done" => "error" \in DOMAIN response

\* C7: when a file-upload request has finished, none of the files it wrote
\* is left in the upload folder.
NoTempFileLeft ==
    pc = "done" => uploads = {}

\* The top-level shape of a Report, with the criteria under either key.
HasReportShape(v) ==
    /\ v.type = "dict"
    /\ (ReportKeys \ {"criteria"}) \subseteq DOMAIN v.value
    /\ {"criteria", "criteria_breakdown"} \cap DOMAIN v.value # {}

\* C8: every response is an explicit error payload or a success carrying a
\* complete Report.
ResponseIsReportOrError ==
    (pc = "done" /\ "error" \notin DOMAIN response)
        => HasReportShape(response.analysis)

\* The "Performance Level" values of the story, in order.
Bands(st) ==
    LET ps == SelectSeq(st, LAMBDA e : e.fmt = "Performance Level: {}")
    IN  [i \in 1 .. Len(ps) |-> ps[i].args[1]]

Rendered == pc = "pdf_respond"

RenderedCriteria == Get(report_data, "criteria", <<>>)

\* C9: every criterion gets one band; it is "Good" from 70 up, "Needs
\* Work" from 50 to 69 and "Poor" below 50, out-of-range scores included.
BandFollowsThresholds ==
    Rendered =>
        /\ Len(Bands(story)) = Len(RenderedCriteria)
        /\ \A i \in 1 .. Len(RenderedCriteria) :
              LET s == Get(RenderedCriteria[i], "score_percentage", 0)
                  b == Bands(story)[i]
              IN  /\ s >= 70 => b = "Good"
                  /\ (50 <= s /\ s < 70) => b = "Needs Work"
                  /\ s < 50 => b = "Poor"
                  /\ b \in {"Good", "Needs Work", "Poor"}

\* A score above 100 was rendered.
BandOfOutOfRangeScore ==
    /\ Rendered
    /\ Len(RenderedCriteria) = 1
    /\ Get(RenderedCriteria[1], "score_percentage", 0) = 101
    /\ Bands(story) = <<"Good">>

SingleCriterionScore(score) ==
    /\ Rendered
    /\ Len(RenderedCriteria) = 1
    /\ Get(RenderedCriteria[1], "score_percentage", 0) = score

\* C10 as stated: with one criterion the band is "Needs Work" for 72,
\* "Poor" for 49 and "Good" for 70.
BandExamplesAsStated ==
    /\ SingleCriterionScore(72) => Bands(story) = <<"Needs Work">>
    /\ SingleCriterionScore(49) => Bands(story) = <<"Poor">>
    /\ SingleCriterionScore(70) => Bands(story) = <<"Good">>

\* C10 amended: with one criterion the band is "Good" for 72, "Poor" for 49
\* and "Good" for 70.
BandExamples ==
    /\ SingleCriterionScore(72) => Bands(story) = <<"Good">>
    /\ SingleCriterionScore(49) => Bands(story) = <<"Poor">>
    /\ SingleCriterionScore(70) => Bands(story) = <<"Good">>

\* The one criterion scored 72 and was rendered "Good".
BandOfSeventyTwo ==
    /\ SingleCriterionScore(72)
    /\ Bands(story) = <<"Good">>

\* The word w occurs in the text s.
HasWord(s, w) ==
    \E k \in 1 .. Len(s) :
        \A j \in 1 .. Len(w) : k + j - 1 <= Len(s) /\ s[k + j - 1] = w[j]

\* The colours of the status lines of the story, in order.
StatusColours(st) ==
    LET ps == SelectSeq(st, LAMBDA e : e.fmt = "<b>Status:</b> <font color='{}'>{}</font>")
    IN  [i \in 1 .. Len(ps) |-> ps[i].args[1]]

ReadinessRendered ==
    /\ Rendered
    /\ "readiness_assessment" \in DOMAIN report_data
    /\ DOMAIN report_data.readiness_assessment # {}

\* C11: the status line is green when the status contains "Ready", orange
\* when it contains "Minor" and not "Ready", red for any other status and
\* for an absent one; "Ready for Submission" is green and "Needs Minor
\* Revisions" orange.
StatusColourFollowsWords ==
    ReadinessRendered =>
        LET readiness == report_data.readiness_assessment
            c == StatusColours(story)
        IN  /\ Len(c) = 1
            /\ IF "status" \notin DOMAIN readiness THEN c[1] = "red"
               ELSE LET status == readiness.status
                    IN  /\ HasWord(status, ReadyText) => c[1] = "green"
                        /\ (~HasWord(status, ReadyText) /\ HasWord(status, MinorText))
                               => c[1] = "orange"
                        /\ (~HasWord(status, ReadyText) /\ ~HasWord(status, MinorText))
                               => c[1] = "red"
                        /\ status = ReadyForSubmissionText => c[1] = "green"
                        /\ status = NeedsMinorRevisionsText => c[1] = "orange"

\* A status naming both words, "Minor" first, was rendered green.
StatusWithBothWords ==
    /\ ReadinessRendered
    /\ "status" \in DOMAIN report_data.readiness_assessment
    /\ report_data.readiness_assessment.status = MinorText \o <<" ">> \o ReadyText
    /\ StatusColours(story) = <<"green">>

\* The title and the section headings of a story, in order.
Headings(st) ==
    LET ps == SelectSeq(st, LAMBDA e : e.style \in {"title", "heading"})
    IN  [i \in 1 .. Len(ps) |-> ps[i].fmt]

HasHeading(st, h) == \E i \in 1 .. Len(Headings(st)) : Headings(st)[i] = h

\* The element of the story that follows the heading h.
AfterHeading(st, h) ==
    st[(CHOOSE i \in 1 .. Len(st) : st[i].style = "heading" /\ st[i].fmt = h) + 1]

\* The value column of the assignment table.
TableValues(st) ==
    LET t == (SelectSeq(st, LAMBDA e : e.el = "Table"))[1].args
    IN  [i \in 1 .. Len(t) |-> t[i][2]]

\* The three lists are empty or missing and none of the three optional
\* records is there.
Minimal(report) ==
    /\ {"overall_score", "overall_grade", "summary"} \subseteq DOMAIN report
    /\ \A k \in {"criteria", "critical_deficiencies", "strengths_to_build"} :
          k \in DOMAIN report => report[k] = <<>>
    /\ {"structural_analysis", "revision_recommendations", "readiness_assessment"}
           \cap DOMAIN report = {}

FooterText ==
    "This report was generated by RUBRIX AI-Powered Assignment Analysis System."

\* C12: a Report with empty lists and without the optional records renders
\* the title block with "<overall_score>/100" and the grade, the summary
\* text and the fixed footer, and no critical-deficiencies, criteria or
\* strengths section.
MinimalReportRendering ==
    (Rendered /\ Minimal(report_data)) =>
        /\ Headings(story)[1] = "RUBRIX Assignment Analysis Report"
        /\ TableValues(story)[3] = <<report_data.overall_score, "/100">>
        /\ TableValues(story)[4] = report_data.overall_grade
        /\ HasHeading(story, "Executive Summary")
        /\ AfterHeading(story, "Executive Summary").args = <<report_data.summary>>
        /\ HasHeading(story, "Report Notes")
        /\ AfterHeading(story, "Report Notes").fmt = FooterText
        /\ ~HasHeading(story, "Critical Deficiencies")
        /\ ~HasHeading(story, "Detailed Criteria Analysis")
        /\ ~HasHeading(story, "Key Strengths to Build Upon")

\* The Report of the end-to-end scenario was rendered.
ScenarioRendered ==
    /\ Rendered
    /\ entry.data.value = Extend(CoreReport, [criteria |-> <<>>,
                                 critical_deficiencies |-> <<>>,
                                 strengths_to_build |-> <<>>])
    /\ Headings(story) = << "RUBRIX Assignment Analysis Report",
                            "Executive Summary", "Report Notes" >>
    /\ TableValues(story)[3] = <<85, "/100">>

\* C13: the executive summary is always rendered, and shows "No summary
\* available." when the summary is absent or an empty string.
EmptySummaryFallsBack ==
    Rendered =>
        /\ HasHeading(story, "Executive Summary")
        /\ ("summary" \notin DOMAIN report_data \/ report_data.summary = "")
               => AfterHeading(story, "Executive Summary").args
                      = <<"No summary available.">>

\* The empty value of every optional key inside the three optional records
\* and inside a criterion.
InnerEmpty ==
    [structural_analysis |->
         [organization |-> "", argument_development |-> "",
          technical_compliance |-> ""],
     revision_recommendations |->
         [high_priority |-> <<>>, content_improvements |-> <<>>,
          structural_changes |-> <<>>, technical_fixes |-> <<>>],
     readiness_assessment |-> [status |-> <<>>, key_barriers |-> <<>>]]

CriterionEmpty ==
    [strengths |-> <<>>, deficiencies |-> <<>>, recommendations |-> <<>>]

\* The Reports that differ from report in one optional key: missing in
\* report, present and empty in the other.
WithOneKeyEmptied(report) ==
    {Extend(report, [x \in {k} |-> EmptyParts[k]]) :
        k \in (DOMAIN EmptyParts) \ (DOMAIN report)}
    \cup
    UNION {
        {[report EXCEPT ![rec] = Extend(report[rec], [x \in {k} |-> InnerEmpty[rec][k]])] :
            k \in (DOMAIN InnerEmpty[rec]) \ (DOMAIN report[rec])} :
        rec \in (DOMAIN InnerEmpty) \cap (DOMAIN report)}
    \cup
    (IF "criteria" \in DOMAIN report
     THEN UNION {
            {[report EXCEPT !.criteria[i] =
                  Extend(report.criteria[i], [x \in {k} |-> CriterionEmpty[k]])] :
                k \in (DOMAIN CriterionEmpty) \ (DOMAIN report.criteria[i])} :
            i \in 1 .. Len(report.criteria)}
     ELSE {})

\* C14: rendering a Report in which an optional key is missing gives the
\* same sections as rendering it with that key present and empty.
MissingKeyRendersAsEmpty ==
    Rendered =>
        \A other \in WithOneKeyEmptied(report_data) :
            Headings(generate_pdf_report(other)) = Headings(story)

\* The title and the headings of the ten sections in their canonical order.
CanonicalOrder ==
    << "RUBRIX Assignment Analysis Report",
       "Executive Summary",
       "Grade Justification",
       "Critical Deficiencies",
       "Detailed Criteria Analysis",
       "Key Strengths to Build Upon",
       "Structural Analysis",
       "Revision Action Plan",
       "Readiness Assessment",
       "Report Notes" >>

\* The place of a heading in the canonical order, 0 for any other text.
Place(h) ==
    IF \E n \in 1 .. Len(CanonicalOrder) : CanonicalOrder[n] = h
    THEN CHOOSE n \in 1 .. Len(CanonicalOrder) : CanonicalOrder[n] = h
    ELSE 0

\* C15: the sections of every document appear in the canonical order, each
\* at most once, and the title block, the executive summary and the
\* footer are always there.
SectionsInCanonicalOrder ==
    Rendered =>
        LET hs == Headings(story)
        IN  /\ \A i \in 1 .. Len(hs) : Place(hs[i]) > 0
            /\ \A i \in 1 .. Len(hs), j \in 1 .. Len(hs) :
                  i < j => Place(hs[i]) < Place(hs[j])
            /\ hs[1] = CanonicalOrder[1]
            /\ hs[2] = CanonicalOrder[2]
            /\ hs[Len(hs)] = CanonicalOrder[10]

\* A Report with every optional part was rendered with all ten sections.
AllSectionsRendered ==
    /\ Rendered
    /\ Headings(story) = CanonicalOrder

\* The elements of the story between the heading h and the next heading.
SectionOf(st, h) ==
    IF \E i \in 1 .. Len(st) : st[i].style = "heading" /\ st[i].fmt = h
    THEN LET first == CHOOSE i \in 1 .. Len(st) : st[i].style = "heading" /\ st[i].fmt = h
             later == {j \in first + 1 .. Len(st) : st[j].style = "heading"}
             last  == IF later = {} THEN Len(st)
                      ELSE (CHOOSE j \in later : \A k \in later : j <= k) - 1
         IN  SubSeq(st, first + 1, last)
    ELSE <<>>

\* The entry headers of a section: its sub-headings but the fixed lead-in.
EntryHeaders(sec) ==
    SelectSeq(sec, LAMBDA e : /\ e.style = "subheading"
                              /\ e.fmt # "These issues require immediate attention:")

\* The list under a key, empty when the key is missing.
ListOf(report, key) == IF key \in DOMAIN report THEN report[key] ELSE <<>>

\* One header per element of the list, in list order, numbered from 1.
NumberedEntries(sec, list, name) ==
    LET hs == EntryHeaders(sec)
    IN  /\ Len(hs) = Len(list)
        /\ \A i \in 1 .. Len(hs) :
              /\ hs[i].fmt = "<b>{}. {}</b>"
              /\ hs[i].args = <<i, Get(list[i], name, "N/A")>>

\* One header per element of the list, in list order, without a number.
CriterionEntries(sec, list) ==
    LET hs == EntryHeaders(sec)
    IN  /\ Len(hs) = Len(list)
        /\ \A i \in 1 .. Len(hs) :
              /\ hs[i].fmt = "<b>{}</b> - Score: {}% (Weight: {}%)"
              /\ hs[i].args[1] = Get(list[i], "criterion", "N/A")

\* A section is there exactly when its list is non-empty.
SectionIffNonEmpty(h, key) ==
    HasHeading(story, h) <=> Len(ListOf(report_data, key)) > 0

GradeJustificationIffPresent ==
    HasHeading(story, "Grade Justification")
        <=> /\ "grade_justification" \in DOMAIN report_data
            /\ report_data.grade_justification # ""

\* C16 as stated: the grade justification is rendered iff it is present and
\* non-empty, and the deficiencies, the criteria and the strengths are each
\* rendered iff their list is non-empty, with one entry per element in list
\* order, every entry numbered from 1.
ListSectionsAllNumbered ==
    Rendered =>
        /\ GradeJustificationIffPresent
        /\ SectionIffNonEmpty("Critical Deficiencies", "critical_deficiencies")
        /\ SectionIffNonEmpty("Detailed Criteria Analysis", "criteria")
        /\ SectionIffNonEmpty("Key Strengths to Build Upon", "strengths_to_build")
        /\ NumberedEntries(SectionOf(story, "Critical Deficiencies"),
                           ListOf(report_data, "critical_deficiencies"), "issue")
        /\ NumberedEntries(SectionOf(story, "Detailed Criteria Analysis"),
                           ListOf(report_data, "criteria"), "criterion")
        /\ NumberedEntries(SectionOf(story, "Key Strengths to Build Upon"),
                           ListOf(report_data, "strengths_to_build"), "strength")

\* C16 amended: as stated, but the entries of the criteria are headed by the
\* name of the criterion and carry no number; only the deficiencies and the
\* strengths are numbered from 1.
ListSectionsEntries ==
    Rendered =>
        /\ GradeJustificationIffPresent
        /\ SectionIffNonEmpty("Critical Deficiencies", "critical_deficiencies")
        /\ SectionIffNonEmpty("Detailed Criteria Analysis", "criteria")
        /\ SectionIffNonEmpty("Key Strengths to Build Upon", "strengths_to_build")
        /\ NumberedEntries(SectionOf(story, "Critical Deficiencies"),
                           ListOf(report_data, "critical_deficiencies"), "issue")
        /\ CriterionEntries(SectionOf(story, "Detailed Criteria Analysis"),
                            ListOf(report_data, "criteria"))
        /\ NumberedEntries(SectionOf(story, "Key Strengths to Build Upon"),
                           ListOf(report_data, "strengths_to_build"), "strength")

\* A Report with two deficiencies, two criteria and two strengths was
\* rendered with its grade justification.
ThreeListsRendered ==
    /\ Rendered
    /\ HasHeading(story, "Grade Justification")
    /\ Len(ListOf(report_data, "critical_deficiencies")) = 2
    /\ Len(ListOf(report_data, "criteria")) = 2
    /\ Len(ListOf(report_data, "strengths_to_build")) = 2
    /\ Len(EntryHeaders(SectionOf(story, "Detailed Criteria Analysis"))) = 2

\* The optional sections of the HTML view of a Report. The template
\* result.html is not part of the source at hand; the section plan is the
\* one of the specification (4.4): a section is included only if its
\* driving data is there and is not empty.
html_sections(result) ==
    {h \in {CanonicalOrder[n] : n \in 3 .. 9} :
        LET key == CASE h = "Grade Justification" -> "grade_justification"
                     [] h = "Critical Deficiencies" -> "critical_deficiencies"
                     [] h = "Detailed Criteria Analysis" -> "criteria"
                     [] h = "Key Strengths to Build Upon" -> "strengths_to_build"
                     [] h = "Structural Analysis" -> "structural_analysis"
                     [] h = "Revision Action Plan" -> "revision_recommendations"
                     [] h = "Readiness Assessment" -> "readiness_assessment"
        IN  /\ key \in DOMAIN result
            /\ IF key = "grade_justification"
               THEN result[key] # ""
               ELSE DOMAIN result[key] # {}}

\* The optional sections of a story.
pdf_sections(st) ==
    {Headings(st)[i] : i \in 1 .. Len(Headings(st))}
        \ {CanonicalOrder[1], CanonicalOrder[2], CanonicalOrder[10]}

\* The Report has none of the three optional records.
NoOptionalRecords(report) ==
    DOMAIN report \cap {"structural_analysis", "revision_recommendations",
                        "readiness_assessment"} = {}

\* C17: for a Report without structural_analysis, revision_recommendations
\* and readiness_assessment, the document and the HTML view of the same
\* Report hold the same optional sections.
SameOptionalSections ==
    (Rendered /\ NoOptionalRecords(report_data)) =>
        pdf_sections(story) = html_sections(report_data)

\* Such a Report was rendered with some optional sections in and others out.
SomeOptionalSectionsRendered ==
    /\ Rendered
    /\ NoOptionalRecords(report_data)
    /\ pdf_sections(story) = {"Grade Justification", "Key Strengths to Build Upon"}
    /\ "criteria" \in DOMAIN report_data

(***************************************************************************)
(* Two file-upload requests to POST /analyze served by two threads of the  *)
(* development server (app.run, threaded by default).  Every local of      *)
(* upload_files is a function of the request; the upload folder is shared  *)
(* and maps a path to the content of the file.  A file operation fails     *)
(* here only because the file is not there.                                *)
(***************************************************************************)

Requests == {1, 2}

\* The values str(uuid.uuid4())[:8] can take: nothing keeps two calls from
\* returning the same eight characters.
Ids == {"1a2b3c4d", "9f8e7d6c"}

\* No identifier drawn yet.
NoId == ""

assign_path_of(id) == <<"uploads", id, "_assignment.txt">>
rubric_path_of(id) == <<"uploads", id, "_rubric.txt">>

\* The uploads of the two requests: different files.
ConcEntries(r) ==
    IF r = 1
    THEN {[kind |-> "files",
           assignment |-> [filename |-> "a.txt", content |-> a],
           rubric |-> [filename |-> "r.txt", content |-> <<"r">>]] :
              a \in {<<"a">>, <<"a", "a">>}}
    ELSE {[kind |-> "files",
           assignment |-> [filename |-> "b.txt", content |-> b],
           rubric |-> [filename |-> "s.txt", content |-> <<"s">>]] :
              b \in {<<"b">>, <<"b", "b">>}}

\* What the provider does with the request of one evaluation.
ConcReplies ==
    {OkReply("none", ExampleText), OkReply("none", <<"x">>),
     OkReply("none", DeepText), FailedReply("timeout")}

\* file.save(path): the file is created or overwritten.
save(folder, path, content) ==
    [q \in DOMAIN folder \cup {path} |-> IF q = path THEN content ELSE folder[q]]

\* os.remove(path) of a file that is there.
remove(folder, path) == [q \in DOMAIN folder \ {path} |-> folder[q]]

\* The content of the file at path, for read_file_content.
content_at(folder, path) == IF path \in DOMAIN folder THEN folder[path] ELSE EmptyText

InitConc ==
    /\ pc = [r \in Requests |-> "idle"]
    /\ entry = [r \in Requests |-> None]
    /\ assignment_text = [r \in Requests |-> NoText]
    /\ rubric_text = [r \in Requests |-> NoText]
    /\ prompt = [r \in Requests |-> None]
    /\ reply = [r \in Requests |-> None]
    /\ analysis_result = [r \in Requests |-> NoText]
    /\ analysis_data = [r \in Requests |-> None]
    /\ uploads = <<>>
    /\ requests_sent = [r \in Requests |-> 0]
    /\ response = [r \in Requests |-> None]
    /\ story = None
    /\ report_data = None
    /\ assign_ids = [r \in Requests |-> NoId]

\* The request reaches the route and passes the checks of the file branch.
ConcReceive(r) ==
    /\ pc[r] = "idle"
    /\ \E e \in ConcEntries(r) : entry' = [entry EXCEPT ![r] = e]
    /\ pc' = [pc EXCEPT ![r] = "assign_id"]
    /\ UNCHANGED <<assignment_text, rubric_text, prompt, reply, analysis_result,
                   analysis_data, uploads, requests_sent, response, story,
                   report_data, assign_ids>>

\* assign_id = str(uuid.uuid4())[:8]
ConcAssignId(r) ==
    /\ pc[r] = "assign_id"
    /\ \E id \in Ids : assign_ids' = [assign_ids EXCEPT ![r] = id]
    /\ pc' = [pc EXCEPT ![r] = "save_assignment"]
    /\ UNCHANGED <<entry, assignment_text, rubric_text, prompt, reply,
                   analysis_result, analysis_data, uploads, requests_sent,
                   response, story, report_data>>

\* assignment_file.save(assign_path)
ConcSaveAssignment(r) ==
    /\ pc[r] = "save_assignment"
    /\ uploads' = save(uploads, assign_path_of(assign_ids[r]),
                       entry[r].assignment.content)
    /\ pc' = [pc EXCEPT ![r] = "save_rubric"]
    /\ UNCHANGED <<entry, assignment_text, rubric_text, prompt, reply,
                   analysis_result, analysis_data, requests_sent, response,
                   story, report_data, assign_ids>>

\* rubric_file.save(rubric_path)
ConcSaveRubric(r) ==
    /\ pc[r] = "save_rubric"
    /\ uploads' = save(uploads, rubric_path_of(assign_ids[r]), entry[r].rubric.content)
    /\ pc' = [pc EXCEPT ![r] = "read_assignment"]
    /\ UNCHANGED <<entry, assignment_text, rubric_text, prompt, reply,
                   analysis_result, analysis_data, requests_sent, response,
                   story, report_data, assign_ids>>

\* assignment_text = read_file_content(assign_path)
ConcReadAssignment(r) ==
    /\ pc[r] = "read_assignment"
    /\ LET path == assign_path_of(assign_ids[r])
       IN  assignment_text' =
               [assignment_text EXCEPT
                   ![r] = read_file_content(content_at(uploads, path),
                                            path \in DOMAIN uploads)]
    /\ pc' = [pc EXCEPT ![r] = "read_rubric"]
    /\ UNCHANGED <<entry, rubric_text, prompt, reply, analysis_result,
                   analysis_data, uploads, requests_sent, response, story,
                   report_data, assign_ids>>

\* rubric_text = read_file_content(rubric_path)
ConcReadRubric(r) ==
    /\ pc[r] = "read_rubric"
    /\ LET path == rubric_path_of(assign_ids[r])
       IN  rubric_text' =
               [rubric_text EXCEPT
                   ![r] = read_file_content(content_at(uploads, path),
                                            path \in DOMAIN uploads)]
    /\ pc' = [pc EXCEPT ![r] = "analyze"]
    /\ UNCHANGED <<entry, assignment_text, prompt, reply, analysis_result,
                   analysis_data, uploads, requests_sent, response, story,
                   report_data, assign_ids>>

\* analyze_with_openrouter and json.loads: the steps of BuildPrompt,
\* ProviderReplies, ProviderFails and ParseFiles, which touch nothing shared.
ConcAnalyze(r) ==
    /\ pc[r] = "analyze"
    /\ prompt' = [prompt EXCEPT ![r] = build_prompt(assignment_text[r], rubric_text[r])]
    /\ requests_sent' = [requests_sent EXCEPT ![r] = @ + 1]
    /\ \E rep \in ConcReplies :
          LET result == IF rep.status = "failed"
                        THEN json_dumps(FallbackVerdict)
                        ELSE clean_response(rep.content)
              parsed == json_loads(result)
          IN  /\ reply' = [reply EXCEPT ![r] = rep]
              /\ analysis_result' = [analysis_result EXCEPT ![r] = result]
              /\ IF parsed.ok
                 THEN /\ analysis_data' = [analysis_data EXCEPT ![r] = parsed.value]
                      /\ pc' = [pc EXCEPT ![r] = "remove_assignment"]
                 ELSE IF parsed.raised = "JSONDecodeError"
                 THEN /\ analysis_data' =
                            [analysis_data EXCEPT ![r] = PyDict(DegradedVerdict(result))]
                      /\ pc' = [pc EXCEPT ![r] = "remove_assignment"]
                 ELSE /\ pc' = [pc EXCEPT ![r] = "except"]
                      /\ UNCHANGED analysis_data
    /\ UNCHANGED <<entry, assignment_text, rubric_text, uploads, response,
                   story, report_data, assign_ids>>

\* os.remove(assign_path) inside try/except-pass: FileNotFoundError skips
\* the second removal.
ConcRemoveAssignment(r) ==
    /\ pc[r] = "remove_assignment"
    /\ LET path == assign_path_of(assign_ids[r])
       IN  IF path \in DOMAIN uploads
           THEN /\ uploads' = remove(uploads, path)
                /\ pc' = [pc EXCEPT ![r] = "remove_rubric"]
           ELSE /\ pc' = [pc EXCEPT ![r] = "render"]
                /\ UNCHANGED uploads
    /\ UNCHANGED <<entry, assignment_text, rubric_text, prompt, reply,
                   analysis_result, analysis_data, requests_sent, response,
                   story, report_data, assign_ids>>

\* os.remove(rubric_path) inside the same try/except-pass.
ConcRemoveRubric(r) ==
    /\ pc[r] = "remove_rubric"
    /\ LET path == rubric_path_of(assign_ids[r])
       IN  uploads' = IF path \in DOMAIN uploads THEN remove(uploads, path) ELSE uploads
    /\ pc' = [pc EXCEPT ![r] = "render"]
    /\ UNCHANGED <<entry, assignment_text, rubric_text, prompt, reply,
                   analysis_result, analysis_data, requests_sent, response,
                   story, report_data, assign_ids>>

\* render_template('result.html', ...)
ConcRender(r) ==
    /\ pc[r] = "render"
    /\ response' = [response EXCEPT
                       ![r] = [kind |-> "html", template |-> "result.html",
                               analysis |-> analysis_data[r],
                               assignment_name |-> entry[r].assignment.filename,
                               rubric_name |-> entry[r].rubric.filename]]
    /\ pc' = [pc EXCEPT ![r] = "done"]
    /\ UNCHANGED <<entry, assignment_text, rubric_text, prompt, reply,
                   analysis_result, analysis_data, uploads, requests_sent,
                   story, report_data, assign_ids>>

\* The outer except of upload_files.
ConcExcept(r) ==
    /\ pc[r] = "except"
    /\ response' = [response EXCEPT
                       ![r] = [kind |-> "html", template |-> "index.html",
                               error |-> "Error: ..."]]
    /\ pc' = [pc EXCEPT ![r] = "done"]
    /\ UNCHANGED <<entry, assignment_text, rubric_text, prompt, reply,
                   analysis_result, analysis_data, uploads, requests_sent,
                   story, report_data, assign_ids>>

NextConc ==
    \E r \in Requests :
        \/ ConcReceive(r)
        \/ ConcAssignId(r)
        \/ ConcSaveAssignment(r)
        \/ ConcSaveRubric(r)
        \/ ConcReadAssignment(r)
        \/ ConcReadRubric(r)
        \/ ConcAnalyze(r)
        \/ ConcRemoveAssignment(r)
        \/ ConcRemoveRubric(r)
        \/ ConcRender(r)
        \/ ConcExcept(r)

SpecConc == InitConc /\ [][NextConc]_vars

\* The request holds its two temporary files: saved, not yet removed.
HoldsFiles(r) ==
    pc[r] \in {"read_assignment", "read_rubric", "analyze", "remove_assignment"}

\* The request has read its two files.
HasRead(r) ==
    pc[r] \in {"analyze", "remove_assignment", "remove_rubric", "render",
               "except", "done"}

\* C18: in every interleaving of two file-upload requests the temporary
\* files of a request stay as it saved them until it removes them, and the
\* texts it evaluates are the contents it uploaded.
RequestsDoNotInterfere ==
    \A r \in Requests :
        /\ HoldsFiles(r) =>
              /\ assign_path_of(assign_ids[r]) \in DOMAIN uploads
              /\ uploads[assign_path_of(assign_ids[r])] = entry[r].assignment.content
              /\ rubric_path_of(assign_ids[r]) \in DOMAIN uploads
              /\ uploads[rubric_path_of(assign_ids[r])] = entry[r].rubric.content
        /\ HasRead(r) =>
              /\ assignment_text[r] = entry[r].assignment.content
              /\ rubric_text[r] = entry[r].rubric.content
        /\ requests_sent[r] > 0 =>
              prompt[r] = build_prompt(entry[r].assignment.content,
                                       entry[r].rubric.content)

\* The Report as the caller sent it.
Supplied == entry.data.value

\* The identifier printed in the footer of a story.
FooterId(st) ==
    (SelectSeq(st, LAMBDA e : e.style = "normal" /\ e.fmt = "Report ID: {}"))[1].args[1]

\* C19: download_pdf assigns analysis_id and timestamp only when the key is
\* absent and leaves a supplied value unchanged; no other field of the Report
\* is changed by download_pdf or by generate_pdf_report, and the footer's
\* identifier is the Report's analysis_id.
OnlyDefaultsAssigned ==
    report_data # None =>
        /\ DOMAIN report_data = DOMAIN Supplied \cup {"analysis_id", "timestamp"}
        /\ \A k \in DOMAIN Supplied : report_data[k] = Supplied[k]
        /\ Rendered => FooterId(story) = report_data.analysis_id

\* A Report that came with its own analysis_id and without a timestamp was
\* rendered.
SuppliedIdRendered ==
    /\ Rendered
    /\ "analysis_id" \in DOMAIN Supplied
    /\ "timestamp" \notin DOMAIN Supplied
    /\ FooterId(story) = "abcd1234"
    /\ report_data.timestamp = "NOW"

\* The body of the request is no JSON object, or it is a Report the
\* renderer cannot handle.
BodyFails == entry.data.type # "dict" \/ raises(entry.data.value)

ErrorPayload ==
    [kind |-> "json", success |-> FALSE,
     error |-> "PDF generation failed: ...", status |-> 500]

\* C20: when rendering fails, for a body that is no JSON object or for a
\* Report of a shape the renderer cannot handle, download_pdf answers with
\* the error payload (success false, status 500, a message) and no document;
\* the handler always gets to its answer and the upload folder stays as
\* it was.
RenderFailureReported ==
    /\ uploads = {}
    /\ pc \in {"pdf_idle", "pdf_defaults", "pdf_generate", "pdf_respond",
               "pdf_except", "done"}
    /\ pc = "pdf_except" => BodyFails
    /\ pc = "done" =>
          IF BodyFails
          THEN response = ErrorPayload /\ story = None
          ELSE response.kind = "pdf"

\* A Report of a shape the renderer cannot handle was answered with the
\* error payload.
MalformedReportRejected ==
    /\ pc = "done"
    /\ entry.data.type = "dict"
    /\ raises(entry.data.value)
    /\ response.status = 500

(***************************************************************************)
(* analyze_with_openrouter called with its three options: the prompt and   *)
(* the request payload of one call, on texts around the two budgets.       *)
(***************************************************************************)

\* The values of detailed_analysis, rewrite_suggestions, grade_prediction.
Options ==
    [detailed_analysis : BOOLEAN, rewrite_suggestions : BOOLEAN,
     grade_prediction : BOOLEAN]

\* Texts as long as a budget, and shorter and longer by up to MaxOver.
TextsAround(budget, patterns) ==
    {PatternText(n, p) : n \in (budget - MaxOver) .. (budget + MaxOver), p \in patterns}

AssignmentsAround == TextsAround(AssignmentBudget, {1})
RubricsAround == TextsAround(RubricBudget, {2})

\* Mutant of analyze_prompt: an option adds an instruction to the prompt.
analyze_promptWithOption(assignment, rubric, detailed_analysis, rewrite_suggestions, grade_prediction) ==
    IF detailed_analysis
    THEN build_prompt(assignment, rubric)
    ELSE build_prompt(assignment, rubric) \o <<"BRIEF">>

\* The prompt of a call: the f-string names none of the three options.
analyze_prompt(assignment, rubric, detailed_analysis, rewrite_suggestions, grade_prediction) ==
    build_prompt(assignment, rubric)

\* The payload of requests.post: constants and the prompt.
payload(user_prompt) ==
    [model |-> "FREE_MODELS[0]",
     messages |-> << [role |-> "system", content |-> "SYSTEM"],
                     [role |-> "user", content |-> user_prompt] >>,
     temperature |-> "0.2",
     max_tokens |-> "2000"]

InitOptions ==
    /\ pc = "build_prompt"
    /\ entry \in Options
    /\ assignment_text \in AssignmentsAround
    /\ rubric_text \in RubricsAround
    /\ prompt = NoText
    /\ reply = None
    /\ analysis_result = NoText
    /\ analysis_data = None
    /\ uploads = {}
    /\ requests_sent = 0
    /\ response = None
    /\ story = None
    /\ report_data = None
    /\ assign_ids = None

\* The prompt is built from the arguments of the call.
BuildPromptOfCall ==
    /\ pc = "build_prompt"
    /\ prompt' = analyze_prompt(assignment_text, rubric_text,
                                entry.detailed_analysis, entry.rewrite_suggestions,
                                entry.grade_prediction)
    /\ pc' = "post"
    /\ UNCHANGED <<entry, assignment_text, rubric_text, reply, analysis_result,
                   analysis_data, uploads, requests_sent, response, story,
                   report_data, assign_ids>>

NextOptions == BuildPromptOfCall

SpecOptions == InitOptions /\ [][NextOptions]_vars

\* The two texts agree on their first n characters.
AgreeUpTo(s, t, n) ==
    /\ Min(Len(s), n) = Min(Len(t), n)
    /\ \A i \in 1 .. Min(Len(s), n) : s[i] = t[i]

\* C21: a call whose texts agree with those of this call on the first 6000
\* characters of the assignment and the first 4000 of the rubric builds the
\* same request payload, and so the same prompt in it, whatever its three
\* options.
PromptIgnoresOptions ==
    pc = "post" =>
        \A a \in AssignmentsAround, r \in RubricsAround :
            (AgreeUpTo(a, assignment_text, 6000) /\ AgreeUpTo(r, rubric_text, 4000)) =>
                \A o \in Options :
                    payload(analyze_prompt(a, r, o.detailed_analysis,
                                           o.rewrite_suggestions, o.grade_prediction))
                        = payload(prompt)

\* A call with an option switched off and both texts over budget built its
\* prompt; a call with other texts agrees with it up to the budgets.
CallWithOptionOff ==
    /\ pc = "post"
    /\ ~entry.detailed_analysis
    /\ Len(assignment_text) > 6000
    /\ Len(rubric_text) > 4000
    /\ \E a \in AssignmentsAround :
          a # assignment_text /\ AgreeUpTo(a, assignment_text, 6000)

\* C22: fence-stripping is idempotent: cleaning the cleaned text of a reply
\* returns it unchanged.
CleaningIsIdempotent ==
    pc = "parse" => clean_response(analysis_result) = analysis_result

\* The handler answered with the document.
PdfReturned == pc = "done" /\ response.kind = "pdf"

\* C23: the successful response of download_pdf has content type
\* application/pdf and the filename RUBRIX_Report_<assignment>_<score>.pdf,
\* where <assignment> is the assignment name with every space replaced by an
\* underscore ("analysis" when absent) and <score> is the overall score
\* ("score" when absent); no space of the assignment name is left.
FilenameFromNameAndScore ==
    PdfReturned =>
        LET name == response.filename[2]
        IN  /\ response.content_type = "application/pdf"
            /\ Len(response.filename) = 5
            /\ response.filename[1] = "RUBRIX_Report_"
            /\ response.filename[3] = "_"
            /\ response.filename[5] = ".pdf"
            /\ IF "assignment" \in DOMAIN report_data
               THEN /\ Len(name) = Len(report_data.assignment)
                    /\ \A i \in 1 .. Len(name) :
                          name[i] = IF report_data.assignment[i] = " "
                                    THEN "_"
                                    ELSE report_data.assignment[i]
               ELSE name = <<"a", "n", "a", "l", "y", "s", "i", "s">>
            /\ \A i \in 1 .. Len(name) : name[i] # " "
            /\ IF "overall_score" \in DOMAIN report_data
               THEN response.filename[4] = report_data.overall_score
               ELSE response.filename[4] = "score"

\* A document was returned for an assignment name with several spaces and
\* a Report without a score.
NameWithSpacesReturned ==
    /\ PdfReturned
    /\ "assignment" \in DOMAIN report_data
    /\ report_data.assignment = <<" ", "a", " ", " ", "b", " ">>
    /\ "overall_score" \notin DOMAIN report_data
    /\ response.filename[2] = <<"_", "a", "_", "_", "b", "_">>

\* The record under a key of the Report, the empty dict when it is missing.
RecordOf(report, key) == IF key \in DOMAIN report THEN report[key] ELSE <<>>

\* The field is there and is not the empty value of its type.
PresentNonEmpty(rec, key, empty) == key \in DOMAIN rec /\ rec[key] # empty

\* The story holds a paragraph with this text.
HasParagraph(st, fmt) ==
    \E i \in 1 .. Len(st) : st[i].el = "Paragraph" /\ st[i].fmt = fmt

StatusLine == "<b>Status:</b> <font color='{}'>{}</font>"

\* The sub-parts of the structural analysis and of the revision plan, and
\* the hours and the barriers of the readiness assessment, are each rendered
\* exactly when their field is there and not empty.
SubPartsButStatus ==
    LET struct == RecordOf(report_data, "structural_analysis")
        recs == RecordOf(report_data, "revision_recommendations")
        readiness == RecordOf(report_data, "readiness_assessment")
    IN  /\ HasParagraph(story, "<b>Organization:</b>")
              <=> PresentNonEmpty(struct, "organization", "")
        /\ HasParagraph(story, "<b>Argument Development:</b>")
              <=> PresentNonEmpty(struct, "argument_development", "")
        /\ HasParagraph(story, "<b>Technical Compliance:</b>")
              <=> PresentNonEmpty(struct, "technical_compliance", "")
        /\ HasParagraph(story, "<b>High Priority (Do First):</b>")
              <=> PresentNonEmpty(recs, "high_priority", <<>>)
        /\ HasParagraph(story, "<b>Content Improvements:</b>")
              <=> PresentNonEmpty(recs, "content_improvements", <<>>)
        /\ HasParagraph(story, "<b>Structural Changes:</b>")
              <=> PresentNonEmpty(recs, "structural_changes", <<>>)
        /\ HasParagraph(story, "<b>Technical Fixes:</b>")
              <=> PresentNonEmpty(recs, "technical_fixes", <<>>)
        /\ HasParagraph(story, "<b>Estimated Revision Time:</b> {} hours")
              <=> PresentNonEmpty(readiness, "estimated_revision_hours", 0)
        /\ HasParagraph(story, "<b>Key Barriers to Higher Score:</b>")
              <=> PresentNonEmpty(readiness, "key_barriers", <<>>)

\* C24 as stated: every sub-part of the three optional sections, the status
\* too, is rendered if and only if its field is present and non-empty.
SubPartsIffPresent ==
    Rendered =>
        /\ SubPartsButStatus
        /\ HasParagraph(story, StatusLine)
              <=> PresentNonEmpty(RecordOf(report_data, "readiness_assessment"),
                                  "status", <<>>)

\* C24 amended: the status line is rendered whenever the readiness record is
\* not empty, with the status of the record or 'Not Assessed' when the record
\* has none; every other sub-part is rendered if and only if its field is
\* present and neither empty nor zero.
SubPartsIffPresentButStatus ==
    Rendered =>
        LET readiness == RecordOf(report_data, "readiness_assessment")
        IN  /\ SubPartsButStatus
            /\ HasParagraph(story, StatusLine) <=> DOMAIN readiness # {}
            /\ DOMAIN readiness # {} =>
                  LET line == CHOOSE e \in {story[i] : i \in 1 .. Len(story)} :
                                  e.fmt = StatusLine
                  IN  line.args[2] = IF "status" \in DOMAIN readiness
                                     THEN readiness.status
                                     ELSE NotAssessedText

\* A readiness record with barriers only was rendered: the barriers and the
\* status line are there, the hours are not.
BarriersOnlyRendered ==
    /\ Rendered
    /\ "readiness_assessment" \in DOMAIN report_data
    /\ DOMAIN report_data.readiness_assessment = {"estimated_revision_hours", "key_barriers"}
    /\ report_data.readiness_assessment.estimated_revision_hours = 0
    /\ HasParagraph(story, "<b>Key Barriers to Higher Score:</b>")
    /\ HasParagraph(story, StatusLine)
    /\ ~HasParagraph(story, "<b>Estimated Revision Time:</b> {} hours")

(***************************************************************************)
(* The /analyze handler with the progress its code guarantees: the thread  *)
(* of the request takes every step that needs no one else, and             *)
(* timeout=45 ends a provider call that nothing else ends.  Whether the    *)
(* provider replies or fails in another way is left to the provider.       *)
(***************************************************************************)

\* The steps of upload_files that wait for nothing.
HandlerStep ==
    \/ JsonValidate
    \/ FilesCheck
    \/ InvalidFormat
    \/ SaveAssignment
    \/ SaveRubric
    \/ ReadFiles
    \/ BuildPrompt
    \/ ParseJson
    \/ ParseFiles
    \/ RemoveAssignment
    \/ RemoveRubric
    \/ RenderResult
    \/ ExceptHandler

SpecLive ==
    /\ Init
    /\ [][Next]_vars
    /\ WF_vars(HandlerStep)
    /\ WF_vars(ProviderFails(FailedReply("timeout")))

\* C25: every /analyze request that has arrived eventually reaches the final
\* state with a response, whatever the provider does, and the response, once
\* returned, is the only one.
EveryRequestAnswered ==
    /\ (pc # "idle") ~> (pc = "done" /\ response # None)
    /\ [][response # None => response' = response]_vars

\* A request whose provider call was ended by the timeout was answered.
TimedOutRequestAnswered ==
    /\ pc = "done"
    /\ reply # None
    /\ reply.status = "failed"
    /\ reply.kind = "timeout"
    /\ response # None

\* C26: a verdict that reaches the renderer as the evaluator side produced
\* it (the fallback verdict, the degraded Report, a verdict shaped like the
\* example of the prompt) keeps its criteria: the story holds one criterion
\* entry per criterion of the verdict.
VerdictKeepsCriteria ==
    Rendered =>
        Len(EntryHeaders(SectionOf(story, "Detailed Criteria Analysis")))
            = Len(CriteriaOf(Supplied))

\* s ends with suffix
endswith(s, suffix) ==
    /\ Len(s) >= Len(suffix)
    /\ SubSeq(s, Len(s) - Len(suffix) + 1, Len(s)) = suffix

\* The text with an opener it begins with removed, or as it is.
WithoutOpener(s) ==
    {s} \cup (IF startswith(s, FenceJson) THEN {SubSeq(s, 8, Len(s))} ELSE {})
        \cup (IF startswith(s, Fence) THEN {SubSeq(s, 4, Len(s))} ELSE {})

\* The text with a fence it ends with removed, or as it is.
WithoutCloser(s) ==
    {s} \cup (IF endswith(s, Fence) THEN {SubSeq(s, 1, Len(s) - 3)} ELSE {})

\* C27: the cleaned text of a reply is the stripped reply with at most an
\* opener it begins with and at most a fence it ends with removed, and
\* stripped again: nothing but outer whitespace and fence markers is lost.
OnlyFencesRemoved ==
    pc = "parse" =>
        \E o \in WithoutOpener(strip(reply.content)) :
            \E c \in WithoutCloser(o) : analysis_result = strip(c)

\* The provider answered with a success status and a body that cannot be
\* used: no JSON, no choices[0].message.content, a content that is no str.
UnusableBody == {"body_not_json", "no_content", "content_not_str"}

\* C28: when the provider answers with a success status and an unusable
\* body, analyze_with_openrouter raises nothing and returns the fixed
\* fallback verdict, after its one request.
UnusableBodyFallsBack ==
    [][(pc = "post" /\ pc' # "post" /\ reply'.status = "failed"
            /\ reply'.kind \in UnusableBody)
          => (pc' = "parse" /\ analysis_result' = FallbackText
                /\ requests_sent' = requests_sent + 1)]_vars

\* A reply whose content is no str ended in the fallback verdict.
ContentNotStrFellBack ==
    /\ pc = "parse"
    /\ reply.status = "failed"
    /\ reply.kind = "content_not_str"
    /\ analysis_result = FallbackText

\* The section under the heading holds at least one paragraph.
HasBody(st, h) ==
    \E i \in 1 .. Len(SectionOf(st, h)) : SectionOf(st, h)[i].el = "Paragraph"

\* C29: the headings "Structural Analysis", "Revision Action Plan" and
\* "Readiness Assessment" appear only with at least one sub-part rendered
\* under them.
NoHeadingWithoutBody ==
    Rendered =>
        \A h \in {"Structural Analysis", "Revision Action Plan", "Readiness Assessment"} :
            HasHeading(story, h) => HasBody(story, h)

====
